---- MODULE Spec2Model ----
(***************************************************************************)
(* State-machine models of WaveformRenderer, RenderingEngine and           *)
(* CacheManager (src/src/renderer.ts), EventHandlerManager                 *)
(* (src/src/event-handler.ts), normalizePeaks (src/src/utils/peaks.ts) and *)
(* EventEmitter (src/packages/waveform-renderer/src/events).               *)
(* Each component has its own variables, actions and specification; a call *)
(* on one component leaves the variables of the others unchanged.          *)
(*                                                                         *)
(* Numbers: a progress value p is held as the integer p * Scale, so 0.5 is *)
(* 5000 and 0.5001 is 5001.  A peak value v is held as v * PeakUnit.       *)
(* The host is a browser: requestAnimationFrame queues a callback for the  *)
(* next frame and returns a fresh non-zero id, cancelAnimationFrame(id)    *)
(* removes it, and a frame tick runs the queued callbacks in request order.*)
(* Public calls are made on instances whose constructor completed; an      *)
(* instance whose construction failed is not used further.                 *)
(* Time is counted in milliseconds and passes in steps of TimeStep; the    *)
(* host runs a timer when its delay has elapsed, before more time passes.  *)
(* A thrown value is a record: isError tells whether it is an Error object,*)
(* id names the object, msg is its message.  The onError callback and the  *)
(* listeners of the renderer's notifications return normally; the one      *)
(* listener that calls back into the instance is that of DestroyNotifying. *)
(***************************************************************************)
EXTENDS Integers, Sequences, FiniteSets, TLC

VARIABLES
    constructed,   \* "ok" | "failed": outcome of the constructor body
    threw,         \* the last call threw to its caller
    isDestroyed,   \* WaveformRenderer.isDestroyed
    options,       \* WaveformRenderer.options
    peaks,         \* WaveformRenderer.peaks
    canvasWidth,   \* logical canvas width (canvas.width / devicePixelRatio)
    frameRequest,  \* WaveformRenderer.frameRequest, 0 when undefined
    pending,       \* the host's queue of animation frame callbacks
    nextId,        \* the id the next requestAnimationFrame returns
    listeners,     \* event types with a handler registered on the canvas
    observing,     \* the ResizeObserver is observing the canvas
    emitted,       \* notifications emitted by the last call, in order
    destroyEmits,  \* number of "destroy" notifications emitted so far
    drawn,         \* what the last call drew with, NotDrawn if nothing
    requests,      \* scheduleRender calls since the last frame tick
    call,          \* the last call made: operation and its input
    hasRendered,   \* a render pass has completed on this instance
    subscribed,    \* the host's listener is registered for "ready"
    delivered,     \* invocations of that listener made by the last call
    readyEmits,    \* number of "ready" notifications emitted so far
    ticked,        \* a frame tick has run since construction
    passFailed     \* a render pass has ended in its catch block

rvars == <<constructed, threw, isDestroyed, options, peaks, canvasWidth,
           frameRequest, pending, nextId, listeners, observing, emitted,
           destroyEmits, drawn, requests, call, hasRendered, subscribed,
           delivered, readyEmits, ticked, passFailed>>

VARIABLES
    ehListeners,   \* event types EventHandlerManager listens to on the canvas
    ehObserving,   \* its ResizeObserver is observing the canvas
    resizeTimeout, \* EventHandlerManager.resizeTimeout, 0 when undefined
    timers,        \* the host's pending timers
    nextTimer,     \* the id the next setTimeout returns
    now,           \* the host's clock, in ms
    lastNotify,    \* time of the last resize notification, -1 if none yet
    resizeCalls,   \* debounce timer runs since the last resize notification
    ehOut,         \* callbacks invoked by the last step, in order
    ehThrew,       \* the last handler let an exception reach the host
    ehCall         \* the last step: what happened and its inputs

ehvars == <<ehListeners, ehObserving, resizeTimeout, timers, nextTimer, now,
            lastNotify, resizeCalls, ehOut, ehThrew, ehCall>>

VARIABLES
    hooks,          \* RenderingEngine.hooks: the hooks installed
    customRenderer, \* RenderingEngine.customRenderer: "none" or what it returns
    engTrace,       \* observable steps of the last render call, in order
    engThrew,       \* the last render call threw to its caller
    engError,       \* the value it threw, Undefined if it returned
    engCall         \* the inputs of the last render call

envars == <<hooks, customRenderer, engTrace, engThrew, engError, engCall>>

VARIABLES
    cache,          \* CacheManager.cache: the current entry, Null if none
    nextEntry,      \* identity of the next entry object buildCache creates
    cacheArgs,      \* the arguments of the latest getCache call, Null if none
    cacheCall       \* the last operation, what it returned and what it found

cvars == <<cache, nextEntry, cacheArgs, cacheCall>>

VARIABLES
    given,          \* the elements of the caller's array when it was passed
    array,          \* the elements of that same array object after the call
    pkCall          \* the last call that was handed the array

pvars == <<given, array, pkCall>>

VARIABLES
    callbacks,      \* EventEmitter.events.get(event): the listener array
    invoked,        \* the listeners the last emit called, in call order
    emCall          \* the last emitter call and the array it found

mvars == <<callbacks, invoked, emCall>>

vars == <<rvars, ehvars, envars, cvars, pvars, mvars>>

----------------------------------------------------------------------------
(* Bounds *)

MaxFrames == 4       \* requestAnimationFrame ids handed out in one run
MaxPeaksLen == 2     \* longest peaks array passed in
MaxTimers == 3       \* setTimeout ids handed out in one run
MaxTicks == 8        \* steps of the clock in one run
MaxEntries == 3      \* cache entries built in one run
MaxListeners == 3    \* most listeners subscribed to the event at once

(* Program constants *)

resizeDebounceDelay == 150

(* Units *)

Scale == 10 * 1000   \* progress 1.0
PeakUnit == 2 + 2    \* peak 1.0
Epsilon == Scale \div 1000   \* 0.001, the documented coalescing threshold
TimeStep == resizeDebounceDelay \div 3   \* one step of the clock, in ms

----------------------------------------------------------------------------
(* Inputs *)

Null == [null |-> TRUE]
NoOptions == [k \in {} |-> 0]

Canvases == {"null", "noctx", "ok"}
PeakValues == {-8}
PeakArrays == UNION {[1..n -> PeakValues] : n \in 0..MaxPeaksLen}
PeakInputs == {[isArray |-> FALSE, elems |-> <<>>]}
                  \cup {[isArray |-> TRUE, elems |-> s] : s \in PeakArrays}
ProgressInputs == {-5 * Scale, 0, Scale \div 2, (Scale \div 2) + 1, Scale, 10 * Scale}
LinePartials == {[width |-> 3], [style |-> "dashed"]}
OptionPartials == {NoOptions,
                   [progress |-> 5 * Scale],
                   [color |-> "#FF0000"],
                   [progressLine |-> Null],
                   [progressLine |-> [width |-> 3]]}
RectWidths == {0, 800}
RectLefts == {100}
ClientXs == {100, 500, 1000}

\* values a callback or a DOM call can throw
ErrorMessages == {"Canvas error", "Resize error", "Callback error"}
Errors == [isError : {TRUE}, id : 1..2, msg : ErrorMessages]
NonErrors == [isError : {FALSE}, id : 3..4,
              msg : {"string error", "An unknown error occurred", "Canvas error"}]
ThrownValues == Errors \cup NonErrors

\* what goes wrong in one handler run: nothing, getBoundingClientRect throws
\* ("measure") or the user's callback throws ("callback")
NoFault == [kind |-> "none"]
Faults == {NoFault} \cup
          {[kind |-> k, value |-> e] :
              k \in {"measure", "callback"},
              e \in {t \in ThrownValues : t.msg = "Canvas error" /\ t.id \in {1, 3}}}

----------------------------------------------------------------------------
(* Helpers *)

Min(a, b) == IF a <= b THEN a ELSE b
Max(a, b) == IF a >= b THEN a ELSE b
Abs(a) == IF a < 0 THEN -a ELSE a

\* object spread { ...a, ...b }
Spread(a, b) ==
    [k \in (DOMAIN a) \cup (DOMAIN b) |-> IF k \in DOMAIN b THEN b[k] ELSE a[k]]

DEFAULT_OPTIONS ==
    [color |-> "#000000",
     progress |-> 0,
     progressLine |-> [color |-> "#FF0000", style |-> "solid", width |-> 2]]

\* IEEE values that are not finite: x / 0 and 0 / 0
PosInf == Scale * Scale
NegInf == -PosInf
NaN == NegInf - 1

\* normalizeProgress without the upper clamp
normalizeProgressNoUpperClamp(progress) ==
    IF progress = NaN THEN NaN ELSE Max(0, progress)

\* Math.max(0, Math.min(1, progress)); both return NaN for a NaN argument
normalizeProgress(progress) ==
    IF progress = NaN THEN NaN ELSE Max(0, Min(Scale, progress))

\* a / b of two pixel lengths, as a progress value
Divide(a, b) ==
    IF b # 0 THEN (a * Scale) \div b
    ELSE IF a = 0 THEN NaN ELSE IF a > 0 THEN PosInf ELSE NegInf

RECURSIVE MaxAbsFrom(_, _, _)
MaxAbsFrom(p, i, m) ==
    IF i > Len(p) THEN m ELSE MaxAbsFrom(p, i + 1, Max(m, Abs(p[i])))

\* normalizePeaks with maxPeak starting at a quarter instead of 1
normalizePeaksLowFloor(p) ==
    LET maxPeak == MaxAbsFrom(p, 1, 1)
    IN  [i \in 1..Len(p) |-> (p[i] * PeakUnit) \div maxPeak]

normalizePeaks(p) ==
    LET maxPeak == MaxAbsFrom(p, 1, PeakUnit)
    IN  [i \in 1..Len(p) |-> (p[i] * PeakUnit) \div maxPeak]

Ev(name) == [name |-> name, num |-> 0, msg |-> ""]
EvNum(name, n) == [name |-> name, num |-> n, msg |-> ""]

\* new Error(m): an Error object created by the library
NewError(m) == [isError |-> TRUE, id |-> 0, msg |-> m]

\* WaveformRenderer.handleError reporting the caught value unchanged
handleErrorNoNormalize(e) ==
    [name |-> "error", num |-> 0, msg |-> e.msg, value |-> e]

\* WaveformRenderer.handleError(e): the "error" notification it emits
handleError(e) ==
    [name |-> "error", num |-> 0, msg |-> IF e.isError THEN e.msg ELSE "An unknown error occurred",
     value |-> IF e.isError THEN e ELSE NewError("An unknown error occurred")]

\* throw new Error(m) inside a try block whose catch calls handleError
EvError(m) == handleError(NewError(m))

Call(op) == [op |-> op, num |-> 0, seq |-> <<>>, flag |-> FALSE, part |-> NoOptions]
CallNum(op, n) == [Call(op) EXCEPT !.num = n]

NotDrawn == [none |-> TRUE]
Undefined == [undefined |-> TRUE]

requestAnimationFrame(q, id, cb) == q \cup {[id |-> id, cb |-> cb]}
cancelAnimationFrame(q, id) == {f \in q : f.id # id}

RenderFrames(q) == {f \in q : f.cb = "render"}

\* scheduleRender without cancelling the frame already requested
scheduleRenderNoCancel(q, fr, id) == requestAnimationFrame(q, id, "render")

\* scheduleRender: the queue after cancelling frame fr and requesting frame id
scheduleRender(q, fr, id) ==
    requestAnimationFrame(IF fr # 0 THEN cancelAnimationFrame(q, fr) ELSE q,
                          id, "render")

\* scheduleRender that cancels the requested frame and requests none
ScheduleRenderCancelOnly ==
    /\ pending' = cancelAnimationFrame(pending, frameRequest)
    /\ frameRequest' = nextId
    /\ nextId' = nextId + 1
    /\ requests' = requests + 1

ScheduleRender ==
    /\ pending' = scheduleRender(pending, frameRequest, nextId)
    /\ frameRequest' = nextId
    /\ nextId' = nextId + 1
    /\ requests' = requests + 1

NoRender == UNCHANGED <<pending, frameRequest, nextId, requests>>

CanRequest == nextId <= MaxFrames

\* the other components are not involved in a call on this one
OtherComponents == UNCHANGED <<ehvars, envars, cvars, pvars, mvars>>

----------------------------------------------------------------------------
(* Constructor *)

ConstructorError(canvas, p) ==
    IF canvas = "null" THEN "Canvas element is required"
    ELSE IF ~p.isArray \/ Len(p.elems) = 0
         THEN "Peaks array is required and must not be empty"
    ELSE IF canvas = "noctx" THEN "Could not get 2D context from canvas"
    ELSE ""

ConstructorOptions(o) ==
    Spread(Spread(DEFAULT_OPTIONS, o),
           [progressLine |->
               IF "progressLine" \in DOMAIN o /\ o.progressLine # Null
               THEN Spread(DEFAULT_OPTIONS.progressLine, o.progressLine)
               ELSE Null])

Constructor(canvas, p, o, w) ==
    LET err == ConstructorError(canvas, p)
    IN  /\ call = Call("constructor")
        /\ threw = FALSE
        /\ isDestroyed = FALSE
        /\ destroyEmits = 0
        /\ drawn = NotDrawn
        /\ hasRendered = FALSE
        /\ subscribed = FALSE
        /\ delivered = 0
        /\ readyEmits = 0
        /\ ticked = FALSE
        /\ passFailed = FALSE
        /\ IF err # ""
           THEN /\ constructed = "failed"
                /\ emitted = <<EvError(err)>>
                /\ options = Undefined
                /\ peaks = <<>>
                /\ canvasWidth = 0
                /\ frameRequest = 0
                /\ pending = {}
                /\ nextId = 1
                /\ requests = 0
                /\ listeners = {}
                /\ observing = FALSE
           ELSE /\ constructed = "ok"
                /\ emitted = <<>>
                /\ peaks = normalizePeaks(p.elems)
                /\ options = ConstructorOptions(o)
                /\ observing = TRUE
                /\ listeners = {"click", "touchstart"}
                /\ canvasWidth = w
                /\ frameRequest = 1
                /\ pending = requestAnimationFrame(scheduleRender({}, 0, 1), 2, "ready")
                /\ nextId = 3
                /\ requests = 1

EHCall(op) == [op |-> op, fault |-> NoFault, clientX |-> 0, left |-> 0,
               width |-> 0, flag |-> FALSE]

\* new EventHandlerManager(canvas, callbacks)
EH_Constructor ==
    /\ ehListeners = {"click", "touchstart"}
    /\ ehObserving = TRUE
    /\ resizeTimeout = 0
    /\ timers = {}
    /\ nextTimer = 1
    /\ now = 0
    /\ lastNotify = -1
    /\ resizeCalls = 0
    /\ ehOut = <<>>
    /\ ehThrew = FALSE
    /\ ehCall = EHCall("constructor")

NoRenderCall == [none |-> TRUE]

\* new RenderingEngine(ctx, callbacks)
Engine_Constructor ==
    /\ hooks = {}
    /\ customRenderer = "none"
    /\ engTrace = <<>>
    /\ engThrew = FALSE
    /\ engError = Undefined
    /\ engCall = NoRenderCall

\* new CacheManager()
Cache_Constructor ==
    /\ cache = Null
    /\ nextEntry = 1
    /\ cacheArgs = Null
    /\ cacheCall = [op |-> "constructor", ret |-> Undefined,
                    prevArgs |-> Null, prevPath |-> Undefined]

\* no array has been handed over yet
Peaks_Idle ==
    /\ given = <<>>
    /\ array = <<>>
    /\ pkCall = [op |-> "none", again |-> FALSE, threw |-> FALSE]

\* private events = new Map(): no listener for any event
Emitter_Constructor ==
    /\ callbacks = <<>>
    /\ invoked = <<>>
    /\ emCall = [op |-> "constructor", before |-> <<>>]

Init ==
    /\ \E canvas \in Canvases, p \in PeakInputs, o \in OptionPartials, w \in RectWidths :
           Constructor(canvas, p, o, w)
    /\ EH_Constructor
    /\ Engine_Constructor
    /\ Cache_Constructor
    /\ Peaks_Idle
    /\ Emitter_Constructor

----------------------------------------------------------------------------
(* Public operations *)

Quiet == /\ emitted' = <<>>
         /\ threw' = FALSE

\* destroy without the isDestroyed early return
DestroyNoGuard ==
    /\ constructed = "ok"
    /\ call' = CallNum("destroy", Cardinality(RenderFrames(pending)))
    /\ threw' = FALSE
    /\ emitted' = <<Ev("destroy")>>
    /\ destroyEmits' = destroyEmits + 1
    /\ isDestroyed' = TRUE
    /\ observing' = FALSE
    /\ listeners' = listeners \ {"click", "touchend"}
    /\ pending' = IF frameRequest # 0
                  THEN cancelAnimationFrame(pending, frameRequest)
                  ELSE pending
    /\ drawn' = NotDrawn
    /\ delivered' = 0
    /\ UNCHANGED <<hasRendered, subscribed, readyEmits, ticked, passFailed>>
    /\ OtherComponents
    /\ UNCHANGED <<constructed, options, peaks, canvasWidth, frameRequest,
                   nextId, requests>>

\* destroy without cancelAnimationFrame
DestroyNoCancel ==
    /\ constructed = "ok"
    /\ call' = CallNum("destroy", Cardinality(RenderFrames(pending)))
    /\ threw' = FALSE
    /\ IF isDestroyed
       THEN /\ emitted' = <<>>
            /\ UNCHANGED <<isDestroyed, destroyEmits, observing, listeners>>
       ELSE /\ emitted' = <<Ev("destroy")>>
            /\ destroyEmits' = destroyEmits + 1
            /\ isDestroyed' = TRUE
            /\ observing' = FALSE
            /\ listeners' = listeners \ {"click", "touchend"}
    /\ drawn' = NotDrawn
    /\ delivered' = 0
    /\ UNCHANGED <<hasRendered, subscribed, readyEmits, ticked, passFailed>>
    /\ OtherComponents
    /\ UNCHANGED <<constructed, options, peaks, canvasWidth, frameRequest,
                   pending, nextId, requests>>

Destroy ==
    /\ constructed = "ok"
    /\ call' = CallNum("destroy", Cardinality(RenderFrames(pending)))
    /\ threw' = FALSE
    /\ IF isDestroyed
       THEN /\ emitted' = <<>>
            /\ UNCHANGED <<isDestroyed, destroyEmits, observing, listeners, pending>>
       ELSE /\ emitted' = <<Ev("destroy")>>
            /\ destroyEmits' = destroyEmits + 1
            /\ isDestroyed' = TRUE
            /\ observing' = FALSE
            /\ listeners' = listeners \ {"click", "touchend"}
            /\ pending' = IF frameRequest # 0
                          THEN cancelAnimationFrame(pending, frameRequest)
                          ELSE pending
    /\ drawn' = NotDrawn
    /\ delivered' = 0
    /\ UNCHANGED <<hasRendered, subscribed, readyEmits, ticked, passFailed>>
    /\ OtherComponents
    /\ UNCHANGED <<constructed, options, peaks, canvasWidth, frameRequest,
                   nextId, requests>>

SetOptions(o) ==
    /\ constructed = "ok"
    /\ isDestroyed \/ CanRequest
    /\ call' = [Call("setOptions") EXCEPT
                   !.flag = "progress" \in DOMAIN o,
                   !.num = IF "progress" \in DOMAIN o THEN o.progress ELSE 0,
                   !.part = o]
    /\ Quiet
    /\ IF isDestroyed
       THEN UNCHANGED options /\ NoRender
       ELSE /\ options' = Spread(options, o)
            /\ ScheduleRender
    /\ UNCHANGED <<constructed, isDestroyed, peaks, canvasWidth, listeners,
                   observing, destroyEmits>>
    /\ drawn' = NotDrawn
    /\ delivered' = 0
    /\ UNCHANGED <<hasRendered, subscribed, readyEmits, ticked, passFailed>>
    /\ OtherComponents

\* setPeaks that rejects a non-array but accepts an empty array
SetPeaksNoLengthCheck(p) ==
    /\ constructed = "ok"
    /\ isDestroyed \/ CanRequest
    /\ call' = [Call("setPeaks") EXCEPT !.seq = p.elems, !.flag = p.isArray]
    /\ threw' = FALSE
    /\ IF isDestroyed
       THEN emitted' = <<>> /\ UNCHANGED peaks /\ NoRender
       ELSE IF ~p.isArray
       THEN /\ emitted' = <<EvError("Peaks array must not be empty")>>
            /\ UNCHANGED peaks
            /\ NoRender
       ELSE /\ emitted' = <<>>
            /\ peaks' = normalizePeaks(p.elems)
            /\ ScheduleRender
    /\ UNCHANGED <<constructed, isDestroyed, options, canvasWidth, listeners,
                   observing, destroyEmits>>
    /\ drawn' = NotDrawn
    /\ delivered' = 0
    /\ UNCHANGED <<hasRendered, subscribed, readyEmits, ticked, passFailed>>
    /\ OtherComponents

SetPeaks(p) ==
    /\ constructed = "ok"
    /\ isDestroyed \/ CanRequest
    /\ call' = [Call("setPeaks") EXCEPT !.seq = p.elems, !.flag = p.isArray]
    /\ threw' = FALSE
    /\ IF isDestroyed
       THEN emitted' = <<>> /\ UNCHANGED peaks /\ NoRender
       ELSE IF ~p.isArray \/ Len(p.elems) = 0
       THEN /\ emitted' = <<EvError("Peaks array must not be empty")>>
            /\ UNCHANGED peaks
            /\ NoRender
       ELSE /\ emitted' = <<>>
            /\ peaks' = normalizePeaks(p.elems)
            /\ ScheduleRender
    /\ UNCHANGED <<constructed, isDestroyed, options, canvasWidth, listeners,
                   observing, destroyEmits>>
    /\ drawn' = NotDrawn
    /\ delivered' = 0
    /\ UNCHANGED <<hasRendered, subscribed, readyEmits, ticked, passFailed>>
    /\ OtherComponents

\* setProgress without the isDestroyed early return
SetProgressNoGuard(progress) ==
    /\ constructed = "ok"
    /\ CanRequest
    /\ call' = CallNum("setProgress", progress)
    /\ threw' = FALSE
    /\ LET normalizedProgress == normalizeProgress(progress)
       IN  /\ options' = [options EXCEPT !.progress = normalizedProgress]
           /\ emitted' = <<EvNum("progressChange", normalizedProgress)>>
           /\ ScheduleRender
    /\ UNCHANGED <<constructed, isDestroyed, peaks, canvasWidth, listeners,
                   observing, destroyEmits>>
    /\ drawn' = NotDrawn
    /\ delivered' = 0
    /\ UNCHANGED <<hasRendered, subscribed, readyEmits, ticked, passFailed>>
    /\ OtherComponents

SetProgress(progress) ==
    /\ constructed = "ok"
    /\ isDestroyed \/ CanRequest
    /\ call' = CallNum("setProgress", progress)
    /\ threw' = FALSE
    /\ IF isDestroyed
       THEN emitted' = <<>> /\ UNCHANGED options /\ NoRender
       ELSE LET normalizedProgress == normalizeProgress(progress)
            IN  /\ options' = [options EXCEPT !.progress = normalizedProgress]
                /\ emitted' = <<EvNum("progressChange", normalizedProgress)>>
                /\ ScheduleRender
    /\ UNCHANGED <<constructed, isDestroyed, peaks, canvasWidth, listeners,
                   observing, destroyEmits>>
    /\ drawn' = NotDrawn
    /\ delivered' = 0
    /\ UNCHANGED <<hasRendered, subscribed, readyEmits, ticked, passFailed>>
    /\ OtherComponents

\* setProgressLineOptions merging the partial over the defaults only
SetProgressLineOptionsNoCurrent(o) ==
    /\ constructed = "ok"
    /\ isDestroyed \/ CanRequest
    /\ call' = [Call("setProgressLineOptions") EXCEPT
                   !.flag = (o = Null),
                   !.part = IF o = Null THEN NoOptions ELSE o]
    /\ Quiet
    /\ IF isDestroyed
       THEN UNCHANGED options /\ NoRender
       ELSE /\ options' =
                  [options EXCEPT !.progressLine =
                      IF o # Null
                      THEN Spread(DEFAULT_OPTIONS.progressLine, o)
                      ELSE Null]
            /\ ScheduleRender
    /\ UNCHANGED <<constructed, isDestroyed, peaks, canvasWidth, listeners,
                   observing, destroyEmits>>
    /\ drawn' = NotDrawn
    /\ delivered' = 0
    /\ UNCHANGED <<hasRendered, subscribed, readyEmits, ticked, passFailed>>
    /\ OtherComponents

SetProgressLineOptions(o) ==
    /\ constructed = "ok"
    /\ isDestroyed \/ CanRequest
    /\ call' = [Call("setProgressLineOptions") EXCEPT
                   !.flag = (o = Null),
                   !.part = IF o = Null THEN NoOptions ELSE o]
    /\ Quiet
    /\ IF isDestroyed
       THEN UNCHANGED options /\ NoRender
       ELSE /\ options' =
                  [options EXCEPT !.progressLine =
                      IF o # Null
                      THEN Spread(Spread(DEFAULT_OPTIONS.progressLine,
                                         IF options.progressLine # Null
                                         THEN options.progressLine ELSE NoOptions),
                                  o)
                      ELSE Null]
            /\ ScheduleRender
    /\ UNCHANGED <<constructed, isDestroyed, peaks, canvasWidth, listeners,
                   observing, destroyEmits>>
    /\ drawn' = NotDrawn
    /\ delivered' = 0
    /\ UNCHANGED <<hasRendered, subscribed, readyEmits, ticked, passFailed>>
    /\ OtherComponents

----------------------------------------------------------------------------
(* Host callbacks *)

\* ResizeObserver callback; w is the width getBoundingClientRect reports
HandleResize(w) ==
    /\ constructed = "ok"
    /\ observing
    /\ isDestroyed \/ CanRequest
    /\ call' = CallNum("handleResize", w)
    /\ threw' = FALSE
    /\ IF isDestroyed
       THEN emitted' = <<>> /\ UNCHANGED canvasWidth /\ NoRender
       ELSE /\ emitted' = <<EvNum("resize", w)>>
            /\ canvasWidth' = w
            /\ ScheduleRender
    /\ UNCHANGED <<constructed, isDestroyed, options, peaks, listeners,
                   observing, destroyEmits>>
    /\ drawn' = NotDrawn
    /\ delivered' = 0
    /\ UNCHANGED <<hasRendered, subscribed, readyEmits, ticked, passFailed>>
    /\ OtherComponents

calculateProgressFromEvent(clientX, left, width) ==
    normalizeProgress(Divide(clientX - left, width))

\* handleClick that also stores the position it reports
HandleClickSetsProgress(clientX, left, width) ==
    /\ constructed = "ok"
    /\ "click" \in listeners
    /\ call' = Call("handleClick")
    /\ threw' = FALSE
    /\ emitted' = IF isDestroyed THEN <<>>
                  ELSE <<EvNum("seek", calculateProgressFromEvent(clientX, left, width))>>
    /\ options' = IF isDestroyed THEN options
                  ELSE [options EXCEPT
                           !.progress = calculateProgressFromEvent(clientX, left, width)]
    /\ UNCHANGED <<constructed, isDestroyed, peaks, canvasWidth,
                   frameRequest, pending, nextId, listeners, observing,
                   destroyEmits, requests>>
    /\ drawn' = NotDrawn
    /\ delivered' = 0
    /\ UNCHANGED <<hasRendered, subscribed, readyEmits, ticked, passFailed>>
    /\ OtherComponents

HandleClick(clientX, left, width) ==
    /\ constructed = "ok"
    /\ "click" \in listeners
    /\ call' = Call("handleClick")
    /\ threw' = FALSE
    /\ emitted' = IF isDestroyed THEN <<>>
                  ELSE <<EvNum("seek", calculateProgressFromEvent(clientX, left, width))>>
    /\ UNCHANGED <<constructed, isDestroyed, options, peaks, canvasWidth,
                   frameRequest, pending, nextId, listeners, observing,
                   destroyEmits, requests>>
    /\ drawn' = NotDrawn
    /\ delivered' = 0
    /\ UNCHANGED <<hasRendered, subscribed, readyEmits, ticked, passFailed>>
    /\ OtherComponents

\* hasTouch: event.changedTouches[0] exists
HandleTouch(hasTouch, clientX, left, width) ==
    /\ constructed = "ok"
    /\ "touchstart" \in listeners
    /\ call' = [Call("handleTouch") EXCEPT !.flag = hasTouch]
    /\ threw' = FALSE
    /\ emitted' = IF isDestroyed \/ ~hasTouch THEN <<>>
                  ELSE <<EvNum("seek", calculateProgressFromEvent(clientX, left, width))>>
    /\ UNCHANGED <<constructed, isDestroyed, options, peaks, canvasWidth,
                   frameRequest, pending, nextId, listeners, observing,
                   destroyEmits, requests>>
    /\ drawn' = NotDrawn
    /\ delivered' = 0
    /\ UNCHANGED <<hasRendered, subscribed, readyEmits, ticked, passFailed>>
    /\ OtherComponents

\* drawWaveform taking progress from DEFAULT_OPTIONS instead of this.options
RenderInputDefaultProgress ==
    [options |-> [options EXCEPT !.progress = DEFAULT_OPTIONS.progress],
     peaks |-> peaks, canvasWidth |-> canvasWidth]

\* what drawWaveform reads when it runs
RenderInput == [options |-> options, peaks |-> peaks, canvasWidth |-> canvasWidth]

\* notifications of one drawWaveform call
drawWaveform == IF isDestroyed THEN <<>> ELSE <<Ev("renderStart"), Ev("renderComplete")>>

\* the frame callbacks without the one that emits "ready"
FrameCallbackNoReady(f) == IF f.cb = "ready" THEN <<>> ELSE drawWaveform

FrameCallback(f) == IF f.cb = "ready" THEN <<Ev("ready")>> ELSE drawWaveform

RECURSIVE RunFrames(_)
RunFrames(q) ==
    IF q = {} THEN <<>>
    ELSE LET f == CHOOSE g \in q : \A h \in q : g.id <= h.id
         IN  FrameCallback(f) \o RunFrames(q \ {f})

\* EventEmitter.emit: invocations of the host's listener for the "ready"
\* events among evts
Dispatch(evts, sub) ==
    IF sub THEN Cardinality({i \in DOMAIN evts : evts[i].name = "ready"}) ELSE 0

\* the host runs the animation frame callbacks queued for this frame; early:
\* the frame starts less than 16 ms after the last completed render pass
FrameTick ==
    \E early \in BOOLEAN :
        /\ constructed = "ok"
        /\ pending # {}
        /\ early => hasRendered
        /\ call' = [CallNum("frameTick", requests) EXCEPT !.flag = early]
        /\ threw' = FALSE
        /\ emitted' = RunFrames(pending)
        /\ delivered' = Dispatch(RunFrames(pending), subscribed)
        /\ readyEmits' = readyEmits + Dispatch(RunFrames(pending), TRUE)
        /\ ticked' = TRUE
        /\ drawn' = IF RenderFrames(pending) # {} /\ ~isDestroyed
                     THEN RenderInput ELSE NotDrawn
        /\ hasRendered' = (hasRendered \/ (RenderFrames(pending) # {} /\ ~isDestroyed))
        /\ pending' = {}
        /\ requests' = 0
        /\ UNCHANGED <<constructed, isDestroyed, options, peaks, canvasWidth,
                       frameRequest, nextId, listeners, observing, destroyEmits,
                       subscribed, passFailed>>
        /\ OtherComponents

\* on("ready", listener) called by the host with its listener
On ==
    /\ constructed = "ok"
    /\ ~subscribed
    /\ subscribed' = TRUE
    /\ call' = Call("on")
    /\ Quiet
    /\ delivered' = 0
    /\ drawn' = NotDrawn
    /\ UNCHANGED <<constructed, isDestroyed, options, peaks, canvasWidth,
                   frameRequest, pending, nextId, listeners, observing,
                   destroyEmits, requests, hasRendered, readyEmits, ticked,
                   passFailed>>
    /\ OtherComponents

----------------------------------------------------------------------------

Next ==
    \/ Destroy
    \/ \E o \in OptionPartials : SetOptions(o)
    \/ \E p \in PeakInputs : SetPeaks(p)
    \/ \E v \in ProgressInputs : SetProgress(v)
    \/ \E o \in LinePartials \cup {Null} : SetProgressLineOptions(o)
    \/ \E w \in RectWidths : HandleResize(w)
    \/ \E x \in ClientXs, l \in RectLefts, w \in RectWidths : HandleClick(x, l, w)
    \/ \E t \in BOOLEAN, x \in ClientXs, l \in RectLefts, w \in RectWidths :
           HandleTouch(t, x, l, w)
    \/ FrameTick

Spec == Init /\ [][Next]_vars

\* the browser runs the queued animation frame callbacks at its next repaint
SpecFair == Spec /\ WF_vars(FrameTick)

\* the renderer with a host that subscribes a listener to "ready"
NextOn ==
    \/ Next
    \/ On

SpecOn == Init /\ [][NextOn]_vars

----------------------------------------------------------------------------
(* A host whose canvas can throw while a pass draws, and whose "destroy"   *)
(* listener calls back into the instance                                   *)

\* what a drawing call throws: an Error and a value that is not an Error
DrawThrown == {e \in ThrownValues : e.id \in {1, 3} /\ e.msg \in {"Canvas error", "string error"}}

\* a failing pass that goes on to report completion after the error
drawWaveformThrowsAndCompletes(e) ==
    IF isDestroyed THEN <<>>
    ELSE <<Ev("renderStart"), handleError(e), Ev("renderComplete")>>

\* a failing pass whose catch block reports nothing
drawWaveformThrowsSilently(e) ==
    IF isDestroyed THEN <<>> ELSE <<Ev("renderStart")>>

\* notifications of a drawWaveform call in which a drawing call inside the
\* try block throws e: "renderStart" was emitted before the try, the rest of
\* the block is skipped and the catch block calls handleError(e)
drawWaveformThrows(e) ==
    IF isDestroyed THEN <<>> ELSE <<Ev("renderStart"), handleError(e)>>

RECURSIVE RunFramesThrowing(_, _)
RunFramesThrowing(q, e) ==
    IF q = {} THEN <<>>
    ELSE LET f == CHOOSE g \in q : \A h \in q : g.id <= h.id
         IN  (IF f.cb = "ready" THEN <<Ev("ready")>> ELSE drawWaveformThrows(e))
             \o RunFramesThrowing(q \ {f}, e)

\* a frame tick on a live instance whose render pass throws e while drawing
FrameTickThrows(e) ==
    /\ constructed = "ok"
    /\ ~isDestroyed
    /\ RenderFrames(pending) # {}
    /\ call' = [CallNum("frameTickThrows", requests) EXCEPT !.part = e]
    /\ threw' = FALSE
    /\ emitted' = RunFramesThrowing(pending, e)
    /\ delivered' = Dispatch(RunFramesThrowing(pending, e), subscribed)
    /\ readyEmits' = readyEmits + Dispatch(RunFramesThrowing(pending, e), TRUE)
    /\ ticked' = TRUE
    /\ passFailed' = TRUE
    /\ drawn' = NotDrawn
    /\ pending' = {}
    /\ requests' = 0
    /\ UNCHANGED <<constructed, isDestroyed, options, peaks, canvasWidth,
                   frameRequest, nextId, listeners, observing, destroyEmits,
                   subscribed, hasRendered>>
    /\ OtherComponents

\* destroy() on a live instance with a "destroy" listener that, the first
\* time it runs, calls k on the instance: destroy() or setProgress(0.5).
\* emit("destroy") runs the listener before isDestroyed is set, so the call
\* it makes finds a live instance; then destroy goes on from its third line
DestroyNotifying(k) ==
    /\ constructed = "ok"
    /\ ~isDestroyed
    /\ k = "setProgress" => CanRequest
    /\ call' = [CallNum("destroy", Cardinality(RenderFrames(pending))) EXCEPT !.seq = <<k>>]
    /\ threw' = FALSE
    /\ isDestroyed' = TRUE
    /\ observing' = FALSE
    /\ listeners' = listeners \ {"click", "touchend"}
    /\ IF k = "destroy"
       THEN /\ emitted' = <<Ev("destroy"), Ev("destroy")>>
            /\ destroyEmits' = destroyEmits + 2
            /\ pending' = IF frameRequest # 0
                          THEN cancelAnimationFrame(pending, frameRequest)
                          ELSE pending
            /\ UNCHANGED <<options, frameRequest, nextId, requests>>
       ELSE /\ emitted' = <<Ev("destroy"),
                            EvNum("progressChange", normalizeProgress(Scale \div 2))>>
            /\ destroyEmits' = destroyEmits + 1
            /\ options' = [options EXCEPT !.progress = normalizeProgress(Scale \div 2)]
            /\ frameRequest' = nextId
            /\ nextId' = nextId + 1
            /\ requests' = requests + 1
            /\ pending' = cancelAnimationFrame(
                              scheduleRender(pending, frameRequest, nextId), nextId)
    /\ drawn' = NotDrawn
    /\ delivered' = 0
    /\ UNCHANGED <<hasRendered, subscribed, readyEmits, ticked, passFailed>>
    /\ UNCHANGED <<constructed, peaks, canvasWidth>>
    /\ OtherComponents

\* the calls that request, run or cancel a render pass
NextHost ==
    \/ Destroy
    \/ \E o \in OptionPartials : SetOptions(o)
    \/ \E p \in PeakInputs : SetPeaks(p)
    \/ \E v \in ProgressInputs : SetProgress(v)
    \/ \E w \in RectWidths : HandleResize(w)
    \/ FrameTick
    \/ \E e \in DrawThrown : FrameTickThrows(e)
    \/ \E k \in {"destroy", "setProgress"} : DestroyNotifying(k)

SpecHost == Init /\ [][NextHost]_vars

----------------------------------------------------------------------------
(* EventHandlerManager *)

\* a renderer the other components' specifications leave alone
RendererIdle ==
    Constructor("ok", [isArray |-> TRUE, elems |-> <<-8>>], NoOptions, 800)

EH_Others == UNCHANGED <<rvars, envars, cvars, pvars, mvars>>

onSeek(progress) == [name |-> "onSeek", num |-> progress, msg |-> ""]
onResize(width) == [name |-> "onResize", num |-> width, msg |-> ""]

\* EventHandlerManager.handleError(e): the onError call it makes
EH_handleError(e) ==
    LET error == IF e.isError THEN e ELSE NewError("An unknown error occurred")
    IN  [name |-> "onError", num |-> 0, msg |-> error.msg, value |-> error]

EH_calculateProgressFromEvent(clientX, left, width) ==
    normalizeProgress(Divide(clientX - left, width))

\* the try block of handleClick and handleTouch without its catch
EH_trySeekNoCatch(clientX, left, width, fault) ==
    IF fault.kind = "measure"
    THEN [out |-> <<>>, threw |-> TRUE]
    ELSE [out |-> <<onSeek(EH_calculateProgressFromEvent(clientX, left, width))>>,
          threw |-> fault.kind = "callback"]

\* the try/catch of handleClick and handleTouch: callbacks made, and whether
\* an exception leaves the handler
EH_trySeek(clientX, left, width, fault) ==
    IF fault.kind = "measure"
    THEN [out |-> <<EH_handleError(fault.value)>>, threw |-> FALSE]
    ELSE IF fault.kind = "callback"
    THEN [out |-> <<onSeek(EH_calculateProgressFromEvent(clientX, left, width)),
                    EH_handleError(fault.value)>>,
          threw |-> FALSE]
    ELSE [out |-> <<onSeek(EH_calculateProgressFromEvent(clientX, left, width))>>,
          threw |-> FALSE]

\* the try/catch in the timer callback of handleResize
EH_tryResize(width, fault) ==
    IF fault.kind = "measure"
    THEN [out |-> <<EH_handleError(fault.value)>>, threw |-> FALSE]
    ELSE IF fault.kind = "callback"
    THEN [out |-> <<onResize(width), EH_handleError(fault.value)>>, threw |-> FALSE]
    ELSE [out |-> <<onResize(width)>>, threw |-> FALSE]

setTimeout(q, id, deadline) == q \cup {[id |-> id, deadline |-> deadline]}
clearTimeout(q, id) == {t \in q : t.id # id}

EH_Frame == UNCHANGED <<ehListeners, ehObserving, resizeTimeout, timers,
                        nextTimer, now, lastNotify, resizeCalls>>

EH_HandleClick(clientX, left, width, fault) ==
    /\ "click" \in ehListeners
    /\ ehCall' = [EHCall("click") EXCEPT !.fault = fault, !.clientX = clientX,
                                         !.left = left, !.width = width]
    /\ ehOut' = EH_trySeek(clientX, left, width, fault).out
    /\ ehThrew' = EH_trySeek(clientX, left, width, fault).threw
    /\ EH_Frame
    /\ EH_Others

\* hasTouch: event.changedTouches[0] exists
EH_HandleTouch(hasTouch, clientX, left, width, fault) ==
    /\ "touchstart" \in ehListeners
    /\ ehCall' = [EHCall("touch") EXCEPT !.fault = IF hasTouch THEN fault ELSE NoFault,
                                         !.clientX = clientX, !.left = left,
                                         !.width = width, !.flag = hasTouch]
    /\ ehOut' = IF hasTouch THEN EH_trySeek(clientX, left, width, fault).out ELSE <<>>
    /\ ehThrew' = IF hasTouch THEN EH_trySeek(clientX, left, width, fault).threw ELSE FALSE
    /\ EH_Frame
    /\ EH_Others

\* handleResize that does not clear the timer already set
EH_HandleResizeNoClear ==
    /\ ehObserving
    /\ nextTimer <= MaxTimers
    /\ ehCall' = EHCall("resize")
    /\ timers' = setTimeout(timers, nextTimer, now + resizeDebounceDelay)
    /\ resizeTimeout' = nextTimer
    /\ nextTimer' = nextTimer + 1
    /\ lastNotify' = now
    /\ resizeCalls' = 0
    /\ ehOut' = <<>>
    /\ ehThrew' = FALSE
    /\ UNCHANGED <<ehListeners, ehObserving, now>>
    /\ EH_Others

\* handleResize: the ResizeObserver notifies the manager
EH_HandleResize ==
    /\ ehObserving
    /\ nextTimer <= MaxTimers
    /\ ehCall' = EHCall("resize")
    /\ timers' = setTimeout(IF resizeTimeout # 0
                            THEN clearTimeout(timers, resizeTimeout) ELSE timers,
                            nextTimer, now + resizeDebounceDelay)
    /\ resizeTimeout' = nextTimer
    /\ nextTimer' = nextTimer + 1
    /\ lastNotify' = now
    /\ resizeCalls' = 0
    /\ ehOut' = <<>>
    /\ ehThrew' = FALSE
    /\ UNCHANGED <<ehListeners, ehObserving, now>>
    /\ EH_Others

\* the host runs a timer whose delay has elapsed; width is what
\* getBoundingClientRect reports then
EH_ResizeTimer(width, fault) ==
    \E t \in timers :
        /\ t.deadline <= now
        /\ ehCall' = [EHCall("resizeTimer") EXCEPT !.fault = fault, !.width = width]
        /\ timers' = timers \ {t}
        /\ ehOut' = EH_tryResize(width, fault).out
        /\ ehThrew' = EH_tryResize(width, fault).threw
        /\ resizeCalls' = resizeCalls + 1
        /\ UNCHANGED <<ehListeners, ehObserving, resizeTimeout, nextTimer, now,
                       lastNotify>>
        /\ EH_Others

\* destroy that leaves the pending debounce timer set
EH_DestroyNoClear ==
    /\ ehCall' = EHCall("destroy")
    /\ ehListeners' = ehListeners \ {"click", "touchstart"}
    /\ ehObserving' = FALSE
    /\ ehOut' = <<>>
    /\ ehThrew' = FALSE
    /\ UNCHANGED <<timers, resizeTimeout, nextTimer, now, lastNotify, resizeCalls>>
    /\ EH_Others

\* destroy: callable any number of times, there is no destroyed flag
EH_Destroy ==
    /\ ehCall' = EHCall("destroy")
    /\ ehListeners' = ehListeners \ {"click", "touchstart"}
    /\ ehObserving' = FALSE
    /\ timers' = IF resizeTimeout # 0 THEN clearTimeout(timers, resizeTimeout) ELSE timers
    /\ ehOut' = <<>>
    /\ ehThrew' = FALSE
    /\ UNCHANGED <<resizeTimeout, nextTimer, now, lastNotify, resizeCalls>>
    /\ EH_Others

\* TimeStep ms pass; no timer is overdue
TimePasses ==
    /\ now < MaxTicks * TimeStep
    /\ \A t \in timers : t.deadline > now
    /\ now' = now + TimeStep
    /\ ehCall' = EHCall("timePasses")
    /\ ehOut' = <<>>
    /\ ehThrew' = FALSE
    /\ UNCHANGED <<ehListeners, ehObserving, resizeTimeout, timers, nextTimer,
                   lastNotify, resizeCalls>>
    /\ EH_Others

InitEH == RendererIdle /\ EH_Constructor /\ Engine_Constructor /\ Cache_Constructor
    /\ Peaks_Idle /\ Emitter_Constructor

NextEH ==
    \/ \E x \in ClientXs, l \in RectLefts, w \in RectWidths, f \in Faults :
           EH_HandleClick(x, l, w, f)
    \/ \E t \in BOOLEAN, x \in ClientXs, l \in RectLefts, w \in RectWidths, f \in Faults :
           EH_HandleTouch(t, x, l, w, f)
    \/ EH_HandleResize
    \/ \E w \in RectWidths, f \in Faults : EH_ResizeTimer(w, f)
    \/ EH_Destroy
    \/ TimePasses

SpecEH == InitEH /\ [][NextEH]_vars

----------------------------------------------------------------------------
(* RenderingEngine *)

HookNames == {"beforeRender", "afterBackground", "afterProgress", "afterComplete"}
CustomRenderers == {"none", "handles", "declines"}
BorderRadii == {0, 2}
RenderProgress == {0, Scale \div 2}

\* the step that throws in one render call, "none" if none does
FailingSteps == {"none", "beforeRender", "customRender", "clearRect", "track",
                 "afterBackground", "progress", "afterProgress", "progressLine",
                 "afterComplete"}

\* what a failing step throws: an Error and a value that is not one
RenderThrown == {t \in ThrownValues : t.msg = "Canvas error" /\ t.id \in {1, 3}}

\* inputs of one render call: options.progress, options.progressLine set,
\* options.borderRadius, staticPath given, Path2D.prototype.roundRect exists,
\* and the step that throws with the value it throws; a step is made to throw
\* in calls whose options let every step run
RenderInputs ==
    {[progress |-> p, line |-> l, borderRadius |-> r, hasPath |-> hp,
      roundRect |-> rr, failAt |-> "none", value |-> Undefined] :
        p \in RenderProgress, l \in BOOLEAN, r \in BorderRadii,
        hp \in BOOLEAN, rr \in BOOLEAN}
    \cup
    {[progress |-> Scale \div 2, line |-> TRUE, borderRadius |-> r, hasPath |-> hp,
      roundRect |-> rr, failAt |-> f, value |-> e] :
        r \in BorderRadii, hp \in BOOLEAN, rr \in BOOLEAN,
        f \in FailingSteps \ {"none"}, e \in RenderThrown}

Engine_Others == UNCHANGED <<rvars, ehvars, cvars, pvars, mvars>>

\* a step of a pass: clip is the rectangle passed to ctx.rect before ctx.clip
\* (empty when the step sets no clip), open the number of ctx.save calls of
\* the step that no ctx.restore has matched when the step ends
Step(name) == [step |-> name, mode |-> "", num |-> 0, clip |-> <<>>, open |-> 0]
Draw(name, mode, n) == [Step(name) EXCEPT !.mode = mode, !.num = n]

\* this.hooks.<name>?.(...)
Hook(h, name, n) == IF name \in h THEN <<Draw(name, "", n)>> ELSE <<>>

shouldUseFallbackRendering(in) ==
    in.borderRadius > 0 /\ (~in.hasPath \/ ~in.roundRect)

\* how a layer is drawn: "bars" is renderWithFallback, one rectangle per bar;
\* otherwise renderWithPath(staticPath!) calls ctx.fill(staticPath), which is
\* "path" when a compiled path was passed and "undefined" when none was
LayerMode(in) ==
    IF shouldUseFallbackRendering(in) THEN "bars"
    ELSE IF in.hasPath THEN "path" ELSE "undefined"

\* the cache entry handed to render: its canvas is wider than high
EngineCache == [canvasWidth |-> 800, canvasHeight |-> 200]

\* the progress layer. renderProgressWithPath: save, rect(0, 0, progressWidth,
\* canvasWidth), clip, fill(path), restore; renderProgressWithFallback: save,
\* rect(0, 0, progressWidth, cache.canvasHeight), clip, the bars, restore
ProgressLayer(mode, in) ==
    LET progressWidth == (EngineCache.canvasWidth * in.progress) \div Scale
    IN  [Draw("progress", mode, in.progress) EXCEPT
            !.clip = <<0, 0, progressWidth,
                       IF mode = "bars" THEN EngineCache.canvasHeight
                       ELSE EngineCache.canvasWidth>>]

\* render calling the afterBackground hook before the track layer is drawn
RenderStepsHookBeforeTrack(h, cr, in) ==
    LET mode == LayerMode(in)
    IN  <<Step("onRenderStart")>>
        \o Hook(h, "beforeRender", 0)
        \o (IF cr # "none" THEN <<Step("customRender")>> ELSE <<>>)
        \o (IF cr = "handles"
            THEN <<Step("onRenderComplete")>>
            ELSE <<Step("clearRect")>>
                 \o Hook(h, "afterBackground", 0)
                 \o <<Draw("track", mode, 0)>>
                 \o (IF in.progress > 0
                     THEN <<ProgressLayer(mode, in)>>
                          \o Hook(h, "afterProgress", in.progress)
                     ELSE <<>>)
                 \o (IF in.line /\ in.progress > 0
                     THEN <<Draw("progressLine", "", in.progress)>>
                     ELSE <<>>)
                 \o Hook(h, "afterComplete", 0)
                 \o <<Step("onRenderComplete")>>)

\* render in which a custom renderer that handled the pass is followed by
\* the progress layer, the progress line and the remaining hooks
RenderStepsHandledContinues(h, cr, in) ==
    LET mode == LayerMode(in)
    IN  <<Step("onRenderStart")>>
        \o Hook(h, "beforeRender", 0)
        \o (IF cr # "none" THEN <<Step("customRender")>> ELSE <<>>)
        \o (IF cr = "handles"
            THEN <<>>
            ELSE <<Step("clearRect"), Draw("track", mode, 0)>>
                 \o Hook(h, "afterBackground", 0))
        \o (IF in.progress > 0
            THEN <<ProgressLayer(mode, in)>>
                 \o Hook(h, "afterProgress", in.progress)
            ELSE <<>>)
        \o (IF in.line /\ in.progress > 0
            THEN <<Draw("progressLine", "", in.progress)>>
            ELSE <<>>)
        \o Hook(h, "afterComplete", 0)
        \o <<Step("onRenderComplete")>>

\* the observable steps of render when nothing throws
RenderSteps(h, cr, in) ==
    LET mode == LayerMode(in)
    IN  <<Step("onRenderStart")>>
        \o Hook(h, "beforeRender", 0)
        \o (IF cr # "none" THEN <<Step("customRender")>> ELSE <<>>)
        \o (IF cr = "handles"
            THEN <<Step("onRenderComplete")>>
            ELSE <<Step("clearRect"), Draw("track", mode, 0)>>
                 \o Hook(h, "afterBackground", 0)
                 \o (IF in.progress > 0
                     THEN <<ProgressLayer(mode, in)>>
                          \o Hook(h, "afterProgress", in.progress)
                     ELSE <<>>)
                 \o (IF in.line /\ in.progress > 0
                     THEN <<Draw("progressLine", "", in.progress)>>
                     ELSE <<>>)
                 \o Hook(h, "afterComplete", 0)
                 \o <<Step("onRenderComplete")>>)

\* index of the first step named s in steps, 0 if there is none
FirstIndex(steps, s) ==
    IF \E i \in DOMAIN steps : steps[i].step = s
    THEN CHOOSE i \in DOMAIN steps :
             /\ steps[i].step = s
             /\ \A j \in 1..(i - 1) : steps[j].step # s
    ELSE 0

\* the steps that run when step failAt throws: it is the last one, and no
\* finally block restores what it saved
StepsUntilThrow(steps, failAt) ==
    LET i == FirstIndex(steps, failAt)
    IN  IF i = 0 THEN steps
        ELSE SubSeq(steps, 1, i - 1)
             \o <<[steps[i] EXCEPT !.open = IF steps[i].clip # <<>> THEN 1 ELSE 0]>>

Engine_Quiet ==
    /\ engTrace' = <<>>
    /\ engThrew' = FALSE
    /\ engError' = Undefined
    /\ engCall' = NoRenderCall

Engine_SetHooks(h) ==
    /\ hooks' = h
    /\ UNCHANGED customRenderer
    /\ Engine_Quiet
    /\ Engine_Others

Engine_ClearHooks ==
    /\ hooks' = {}
    /\ UNCHANGED customRenderer
    /\ Engine_Quiet
    /\ Engine_Others

Engine_SetCustomRenderer(r) ==
    /\ customRenderer' = r
    /\ UNCHANGED hooks
    /\ Engine_Quiet
    /\ Engine_Others

\* render whose completion callback runs in a finally block and whose catch
\* block wraps the caught value in a new Error
Engine_RenderWrapsError(in) ==
    LET steps == RenderSteps(hooks, customRenderer, in)
        throws == FirstIndex(steps, in.failAt) # 0
    IN  /\ engCall' = [in |-> in, hooks |-> hooks, customRenderer |-> customRenderer]
        /\ engTrace' = IF throws
                        THEN StepsUntilThrow(steps, in.failAt)
                             \o <<Step("onRenderComplete")>>
                        ELSE steps
        /\ engThrew' = throws
        /\ engError' = IF throws THEN NewError(in.value.msg) ELSE Undefined
        /\ UNCHANGED <<hooks, customRenderer>>
        /\ Engine_Others

\* render: the steps run up to the first that throws; catch (error) { throw
\* error; } hands the caught value to the caller
Engine_Render(in) ==
    LET steps == RenderSteps(hooks, customRenderer, in)
        throws == FirstIndex(steps, in.failAt) # 0
    IN  /\ engCall' = [in |-> in, hooks |-> hooks, customRenderer |-> customRenderer]
        /\ engTrace' = StepsUntilThrow(steps, in.failAt)
        /\ engThrew' = throws
        /\ engError' = IF throws THEN in.value ELSE Undefined
        /\ UNCHANGED <<hooks, customRenderer>>
        /\ Engine_Others

InitEngine == RendererIdle /\ EH_Constructor /\ Engine_Constructor /\ Cache_Constructor
    /\ Peaks_Idle /\ Emitter_Constructor

NextEngine ==
    \/ \E h \in SUBSET HookNames : Engine_SetHooks(h)
    \/ Engine_ClearHooks
    \/ \E r \in CustomRenderers : Engine_SetCustomRenderer(r)
    \/ \E in \in RenderInputs : Engine_Render(in)

SpecEngine == InitEngine /\ [][NextEngine]_vars

----------------------------------------------------------------------------
(* Error reporting of both classes, applied to every thrown value *)

\* a catch block of WaveformRenderer receives e and calls handleError(e)
Renderer_Catch(e) ==
    /\ constructed = "ok"
    /\ ~isDestroyed
    /\ call' = [Call("handleError") EXCEPT !.part = e]
    /\ emitted' = <<handleError(e)>>
    /\ threw' = FALSE
    /\ drawn' = NotDrawn
    /\ delivered' = 0
    /\ UNCHANGED <<constructed, isDestroyed, options, peaks, canvasWidth,
                   frameRequest, pending, nextId, listeners, observing,
                   destroyEmits, requests, hasRendered, subscribed, readyEmits,
                   ticked, passFailed>>
    /\ OtherComponents

\* a catch block of EventHandlerManager receives e and calls handleError(e)
EH_Catch(e) ==
    /\ ehCall' = [EHCall("handleError") EXCEPT !.fault = [kind |-> "caught", value |-> e]]
    /\ ehOut' = <<EH_handleError(e)>>
    /\ ehThrew' = FALSE
    /\ EH_Frame
    /\ EH_Others

NextErrors ==
    \/ \E e \in ThrownValues : Renderer_Catch(e)
    \/ \E e \in ThrownValues : EH_Catch(e)

SpecErrors == InitEH /\ [][NextErrors]_vars

----------------------------------------------------------------------------
(* CacheManager *)

Cache_Others == UNCHANGED <<rvars, ehvars, envars, pvars, mvars>>

\* canvas.width, canvas.height in device pixels and the devicePixelRatio
CacheCanvases == {[width |-> 20, height |-> 8, dpr |-> 1],
                  [width |-> 40, height |-> 16, dpr |-> 2],
                  [width |-> 10, height |-> 8, dpr |-> 1]}

\* peaks in units of 1 / PeakUnit; the third and the fourth differ only
\* between their first and last value
CachePeaks == {<<>>, <<2>>, <<2, 4, 2>>, <<2, 1, 2>>, <<-4, 4, 2>>}

LayoutFields == {"amplitude", "barWidth", "borderWidth", "gap", "position",
                 "borderRadius"}
NonLayoutFields == {"color", "backgroundColor", "borderColor", "progress",
                    "smoothing", "progressLine", "debug"}

\* a complete options object
CacheBaseOptions ==
    [amplitude |-> 1, barWidth |-> 2, borderWidth |-> 1, gap |-> 1,
     position |-> "bottom", borderRadius |-> 2,
     color |-> "#3b82f6", backgroundColor |-> "#f0f0f0", borderColor |-> "#000",
     progress |-> 0, smoothing |-> FALSE, progressLine |-> "null", debug |-> FALSE]

\* the options objects passed to getCache: the base and every object that
\* differs from it in one field
CacheOptions ==
    {CacheBaseOptions,
     [CacheBaseOptions EXCEPT !.amplitude = 2],
     [CacheBaseOptions EXCEPT !.barWidth = 4],
     [CacheBaseOptions EXCEPT !.borderWidth = 2],
     [CacheBaseOptions EXCEPT !.gap = 0],
     [CacheBaseOptions EXCEPT !.position = "center"],
     [CacheBaseOptions EXCEPT !.position = "top"],
     [CacheBaseOptions EXCEPT !.borderRadius = 0],
     [CacheBaseOptions EXCEPT !.color = "#ff0000"],
     [CacheBaseOptions EXCEPT !.backgroundColor = "#ffffff"],
     [CacheBaseOptions EXCEPT !.borderColor = "#333333"],
     [CacheBaseOptions EXCEPT !.progress = Scale \div 2],
     [CacheBaseOptions EXCEPT !.smoothing = TRUE],
     [CacheBaseOptions EXCEPT !.progressLine = "line"],
     [CacheBaseOptions EXCEPT !.debug = TRUE]}

\* the arguments of one getCache call: every canvas with every peaks array
\* under the base options, and every options object with one canvas and
\* one peaks array
CacheInputs ==
    [canvas : CacheCanvases, peaks : CachePeaks, options : {CacheBaseOptions}]
    \cup
    [canvas : {[width |-> 20, height |-> 8, dpr |-> 1]}, peaks : {<<2, 4, 2>>},
     options : CacheOptions]

\* the compiled path of entry c
PathOf(c) == IF c = Null THEN Undefined ELSE c.staticWaveformPath

\* the record of one call: its name, what it returned, the arguments of the
\* getCache call before it and the compiled path the entry had before it
CacheCall(op, ret) ==
    [op |-> op, ret |-> ret, prevArgs |-> cacheArgs, prevPath |-> PathOf(cache)]

\* createOptionsHash joining the colour to the layout fields
createOptionsHashWithColor(opts) ==
    <<opts.amplitude, opts.barWidth, opts.borderWidth, opts.gap,
      opts.position, opts.borderRadius, opts.color>>

\* `${amplitude}-${barWidth}-${borderWidth}-${gap}-${position}-${borderRadius}`:
\* the string determines the six values and nothing else
createOptionsHash(opts) ==
    <<opts.amplitude, opts.barWidth, opts.borderWidth, opts.gap,
      opts.position, opts.borderRadius>>

\* peaks[i] || 0 for a zero-based index i
PeakOrZero(pks, i) ==
    IF i >= 0 /\ i < Len(pks) THEN pks[i + 1] ELSE 0

\* `${peaks.length}-${peaks[0] || 0}-${peaks[peaks.length - 1] || 0}`
createPeaksHash(pks) ==
    <<Len(pks), PeakOrZero(pks, 0), PeakOrZero(pks, Len(pks) - 1)>>

\* height in units of 1 / PeakUnit, y in units of 1 / (2 * PeakUnit)
calculateBarDimensions(peak, canvasHeight, amplitude, position) ==
    LET height == peak * canvasHeight * amplitude
    IN  IF position = "bottom"
        THEN [height |-> height, y |-> 2 * (canvasHeight * PeakUnit - height)]
        ELSE IF position = "top"
        THEN [height |-> height, y |-> 0]
        ELSE [height |-> height, y |-> canvasHeight * PeakUnit - height]

\* buildCache; id is the identity of the object it returns.  For the widths
\* and lengths used here Math.floor(i * step) in doubles equals the exact
\* floor of i * peaks.length / totalBars.
buildCache(id, width, height, pks, opts, optionsHash, peaksHash) ==
    LET initialOffset == opts.borderWidth
        availableWidth == width - opts.borderWidth * 2 * initialOffset
        singleUnitWidth == opts.barWidth + opts.borderWidth * 2 + opts.gap
        totalBars == Max(1, availableWidth \div singleUnitWidth)
        bar(i) ==
            LET peakIndex == (i * Len(pks)) \div totalBars
                peakValue == Abs(PeakOrZero(pks, peakIndex))
                dim == calculateBarDimensions(peakValue, height,
                                              opts.amplitude, opts.position)
            IN  [x |-> initialOffset + i * singleUnitWidth, y |-> dim.y,
                 width |-> opts.barWidth, height |-> dim.height,
                 peakValue |-> peakValue]
    IN  [id |-> id,
         canvasWidth |-> width,
         canvasHeight |-> height,
         totalBars |-> totalBars,
         step |-> <<Len(pks), totalBars>>,
         singleUnitWidth |-> singleUnitWidth,
         bars |-> [i \in 1..totalBars |-> bar(i - 1)],
         lastOptionsHash |-> optionsHash,
         lastPeaksHash |-> peaksHash,
         staticWaveformPath |-> Undefined]

isCacheValid(c, width, height, optionsHash, peaksHash) ==
    /\ c # Null
    /\ c.canvasWidth = width
    /\ c.canvasHeight = height
    /\ c.lastOptionsHash = optionsHash
    /\ c.lastPeaksHash = peaksHash

\* isValid()
isValid == cache # Null

\* what getCache does to this.cache
getCacheResult(c, id, in) ==
    LET currentCanvasWidth == in.canvas.width \div in.canvas.dpr
        currentCanvasHeight == in.canvas.height \div in.canvas.dpr
        currentOptionsHash == createOptionsHash(in.options)
        currentPeaksHash == createPeaksHash(in.peaks)
    IN  IF isCacheValid(c, currentCanvasWidth, currentCanvasHeight,
                        currentOptionsHash, currentPeaksHash)
        THEN c
        ELSE buildCache(id, currentCanvasWidth, currentCanvasHeight, in.peaks,
                        in.options, currentOptionsHash, currentPeaksHash)

\* getCache that builds a new entry on every call
Cache_GetCacheAlwaysRebuilds(in) ==
    /\ nextEntry <= MaxEntries
    /\ cache' = getCacheResult(Null, nextEntry, in)
    /\ nextEntry' = nextEntry + 1
    /\ cacheArgs' = in
    /\ cacheCall' = CacheCall("getCache", cache'.id)
    /\ Cache_Others

\* getCache(canvas, devicePixelRatio, peaks, options)
Cache_GetCache(in) ==
    LET result == getCacheResult(cache, nextEntry, in)
        rebuilt == result.id = nextEntry
    IN  /\ rebuilt => nextEntry <= MaxEntries
        /\ cache' = result
        /\ nextEntry' = IF rebuilt THEN nextEntry + 1 ELSE nextEntry
        /\ cacheArgs' = in
        /\ cacheCall' = CacheCall("getCache", result.id)
        /\ Cache_Others

\* new Path2D() filled from the bars: one roundRect per bar when there is a
\* border radius and Path2D has roundRect, one rect per bar otherwise
NewPath(bars, borderRadius, roundRect) ==
    [shape |-> IF borderRadius > 0 /\ roundRect THEN "roundRect" ELSE "rect",
     radius |-> IF borderRadius > 0 /\ roundRect THEN borderRadius ELSE 0,
     bars |-> bars]

\* createStaticPath(cache, borderRadius) on the entry getCache returned last
Cache_CreateStaticPath(borderRadius, roundRect) ==
    /\ cache # Null
    /\ cache' = IF cache.staticWaveformPath # Undefined
                THEN cache
                ELSE [cache EXCEPT !.staticWaveformPath =
                                       NewPath(cache.bars, borderRadius, roundRect)]
    /\ cacheCall' = CacheCall("createStaticPath", cache'.staticWaveformPath)
    /\ UNCHANGED <<nextEntry, cacheArgs>>
    /\ Cache_Others

\* invalidate that drops the entry
Cache_InvalidateDropsEntry ==
    /\ cache' = Null
    /\ cacheCall' = CacheCall("invalidate", Undefined)
    /\ UNCHANGED <<nextEntry, cacheArgs>>
    /\ Cache_Others

\* invalidate()
Cache_Invalidate ==
    /\ cache' = IF cache # Null
                THEN [cache EXCEPT !.staticWaveformPath = Undefined]
                ELSE cache
    /\ cacheCall' = CacheCall("invalidate", Undefined)
    /\ UNCHANGED <<nextEntry, cacheArgs>>
    /\ Cache_Others

\* clear()
Cache_Clear ==
    /\ cache' = Null
    /\ cacheCall' = CacheCall("clear", Undefined)
    /\ UNCHANGED <<nextEntry, cacheArgs>>
    /\ Cache_Others

InitCache == RendererIdle /\ EH_Constructor /\ Engine_Constructor /\ Cache_Constructor
    /\ Peaks_Idle /\ Emitter_Constructor

NextCache ==
    \/ \E in \in CacheInputs : Cache_GetCache(in)
    \/ \E r \in BorderRadii, rr \in BOOLEAN : Cache_CreateStaticPath(r, rr)
    \/ Cache_Invalidate
    \/ Cache_Clear

SpecCache == InitCache /\ [][NextCache]_vars

----------------------------------------------------------------------------
(* normalizePeaks and the array it is handed                               *)
(*                                                                         *)
(* normalizePeaks writes every quotient back into the array it was given   *)
(* and returns that array, so the caller's array, the return value and     *)
(* (after the constructor or setPeaks) this.peaks are one object: array    *)
(* holds its elements after the call, given what the caller passed.        *)

Peaks_Others == UNCHANGED <<rvars, ehvars, envars, cvars, mvars>>

\* peak values in units of 1 / PeakUnit: -2, -0.5, 0, 0.25, 1, 2
SeriesValues == {-8, -2, 0, 1, 4, 8}

\* [1000, 2000, 3000, 4000]
LargeSeries == <<1000 * PeakUnit, 2000 * PeakUnit, 3000 * PeakUnit, 4000 * PeakUnit>>

MaxAbs(p) == MaxAbsFrom(p, 1, 0)

\* every quotient x / max(1, max |x|) is a whole number of units, so that the
\* integer division of normalizePeaks is the exact quotient
Representable(p) ==
    \A i \in 1..Len(p) : (p[i] * PeakUnit) % MaxAbsFrom(p, 1, PeakUnit) = 0

Series ==
    {p \in UNION {[1..n -> SeriesValues] : n \in 0..MaxPeaksLen} : Representable(p)}
    \cup {LargeSeries}

PeaksCall(op, again, failed) == [op |-> op, again |-> again, threw |-> failed]

\* normalizePeaks(p) called on a caller's array
Peaks_Normalize(p) ==
    /\ given' = p
    /\ array' = normalizePeaks(p)
    /\ pkCall' = PeaksCall("normalizePeaks", FALSE, FALSE)
    /\ Peaks_Others

\* normalizePeaks called on the array a call has already normalized
Peaks_NormalizeAgain ==
    /\ pkCall.op = "normalizePeaks"
    /\ given' = array
    /\ array' = normalizePeaks(array)
    /\ pkCall' = PeaksCall("normalizePeaks", TRUE, FALSE)
    /\ Peaks_Others

\* new WaveformRenderer(canvas, p) and setPeaks(p) with an array p: an empty
\* array is rejected before it is touched, any other is stored by
\* this.peaks = normalizePeaks(peaks)
Peaks_Store(op, p) ==
    /\ given' = p
    /\ array' = IF Len(p) = 0 THEN p ELSE normalizePeaks(p)
    /\ pkCall' = PeaksCall(op, FALSE, Len(p) = 0)
    /\ Peaks_Others

InitPeaks == RendererIdle /\ EH_Constructor /\ Engine_Constructor /\ Cache_Constructor
    /\ Peaks_Idle /\ Emitter_Constructor

NextPeaks ==
    \/ \E p \in Series : Peaks_Normalize(p)
    \/ Peaks_NormalizeAgain
    \/ \E op \in {"constructor", "setPeaks"}, p \in Series : Peaks_Store(op, p)

SpecPeaks == InitPeaks /\ [][NextPeaks]_vars

----------------------------------------------------------------------------
(* EventEmitter: the listener array of one event                           *)
(*                                                                         *)
(* A listener is a function with an identity (id) and a body: "plain"      *)
(* touches nothing, "off" calls off(event, f) for the listener with id     *)
(* target (itself when target = id), "once" is the wrapper once() creates, *)
(* which calls off(event, wrapper) and then the callback.                  *)

Emitter_Others == UNCHANGED <<rvars, ehvars, envars, cvars, pvars>>

ListenerIds == 1..MaxListeners

Listeners ==
    {[id |-> i, kind |-> "plain", target |-> 0] : i \in ListenerIds}
    \cup {[id |-> i, kind |-> "off", target |-> t] : i \in ListenerIds, t \in ListenerIds}

OnceListener(i) == [id |-> i, kind |-> "once", target |-> i]

\* off: callbacks.splice(callbacks.indexOf(callback), 1) when it is present
off(cbs, id) == SelectSeq(cbs, LAMBDA l : l.id # id)

\* callbacks.forEach(callback => callback(args)) from index k on: the length
\* len is read once at the start, an index that the array no longer has is
\* passed over, and each listener's body acts on the array being walked
RECURSIVE forEach(_, _, _, _)
forEach(cbs, k, len, inv) ==
    IF k > len THEN [cbs |-> cbs, inv |-> inv]
    ELSE IF k > Len(cbs) THEN forEach(cbs, k + 1, len, inv)
    ELSE LET l == cbs[k]
             after == IF l.kind = "plain" THEN cbs ELSE off(cbs, l.target)
         IN  forEach(after, k + 1, len, Append(inv, l.id))

EmitterCall(op) == [op |-> op, before |-> callbacks]

Emitter_On(l) ==
    /\ Len(callbacks) < MaxListeners
    /\ \A i \in DOMAIN callbacks : callbacks[i].id # l.id
    /\ callbacks' = Append(callbacks, l)
    /\ invoked' = <<>>
    /\ emCall' = EmitterCall("on")
    /\ Emitter_Others

Emitter_Once(i) ==
    /\ Len(callbacks) < MaxListeners
    /\ \A j \in DOMAIN callbacks : callbacks[j].id # i
    /\ callbacks' = Append(callbacks, OnceListener(i))
    /\ invoked' = <<>>
    /\ emCall' = EmitterCall("once")
    /\ Emitter_Others

Emitter_Off(i) ==
    /\ callbacks' = off(callbacks, i)
    /\ invoked' = <<>>
    /\ emCall' = EmitterCall("off")
    /\ Emitter_Others

Emitter_Emit ==
    LET run == forEach(callbacks, 1, Len(callbacks), <<>>)
    IN  /\ callbacks' = run.cbs
        /\ invoked' = run.inv
        /\ emCall' = EmitterCall("emit")
        /\ Emitter_Others

InitEmitter == RendererIdle /\ EH_Constructor /\ Engine_Constructor /\ Cache_Constructor
    /\ Peaks_Idle /\ Emitter_Constructor

NextEmitter ==
    \/ \E l \in Listeners : Emitter_On(l)
    \/ \E i \in ListenerIds : Emitter_Once(i)
    \/ \E i \in ListenerIds : Emitter_Off(i)
    \/ Emitter_Emit

SpecEmitter == InitEmitter /\ [][NextEmitter]_vars

----------------------------------------------------------------------------
(* Properties *)

Live == constructed = "ok" /\ ~isDestroyed
Emits(name) == \E i \in DOMAIN emitted : emitted[i].name = name
CountEmits(name) == Cardinality({i \in DOMAIN emitted : emitted[i].name = name})
Clamp01(v) == IF v < 0 THEN 0 ELSE IF v > Scale THEN Scale ELSE v
Mutators == {"setOptions", "setPeaks", "setProgress", "setProgressLineOptions"}
InstanceState == <<isDestroyed, options, peaks, canvasWidth, frameRequest,
                   pending, nextId, listeners, observing, destroyEmits>>

\* C1: whatever calls are made, "destroy" is emitted exactly once, by the
\* first destroy() call; a later destroy() call emits nothing, does not
\* throw and changes no state of the instance.
C1_DestroyEmittedOnce ==
    /\ [](constructed = "ok" => destroyEmits = IF isDestroyed THEN 1 ELSE 0)
    /\ [][(~isDestroyed /\ call'.op = "destroy")
            => (emitted' = <<Ev("destroy")>> /\ isDestroyed')]_vars
    /\ [][(isDestroyed /\ call'.op = "destroy")
            => (emitted' = <<>> /\ ~threw' /\ UNCHANGED InstanceState)]_vars

C1_Witness ==
    isDestroyed /\ call.op = "destroy" /\ emitted = <<>> /\ destroyEmits = 1

\* C2: after destroy() each of setOptions, setPeaks, setProgress and
\* setProgressLineOptions returns without throwing, leaves options and peaks
\* as they were, emits nothing and requests no frame.
C2_MutatorsNoOpAfterDestroy ==
    /\ [][(isDestroyed /\ call'.op \in Mutators)
            => /\ emitted' = <<>>
               /\ ~threw'
               /\ UNCHANGED <<options, peaks, pending, frameRequest, nextId>>]_vars
    /\ [][isDestroyed => UNCHANGED <<options, peaks>>]_vars

C2_Witness ==
    /\ isDestroyed
    /\ call.op = "setProgress"
    /\ call.num = Scale \div 2
    /\ options.progress # Scale \div 2
    /\ emitted = <<>>

\* C3: once destroy() has run no render frame is pending, and no call made
\* afterwards (a frame tick included) runs a render pass or emits
\* renderStart or renderComplete.
C3_NoRenderAfterDestroy ==
    isDestroyed => /\ RenderFrames(pending) = {}
                   /\ ~Emits("renderStart")
                   /\ ~Emits("renderComplete")
                   /\ drawn = NotDrawn

C3_Witness ==
    isDestroyed /\ call.op = "frameTick" /\ emitted = <<Ev("ready")>>

\* C4: a constructor given a null canvas, peaks that are not a non-empty
\* array, or a canvas without a 2D context throws to its caller, attaches no
\* listener or observer, requests no frame and never emits "ready".
C4_ConstructionFailsFast ==
    constructed = "failed" => /\ threw
                              /\ listeners = {}
                              /\ ~observing
                              /\ pending = {}
                              /\ ~Emits("ready")

\* C5: setPeaks on a live instance with an empty array or a non-array does
\* not throw, emits exactly one error "Peaks array must not be empty" and
\* leaves peaks, options and the pending frame as they were; with a
\* non-empty array it stores the new series and leaves a render frame pending.
C5_SetPeaksInvalidIsRecoverable ==
    [][(~isDestroyed /\ call'.op = "setPeaks")
        => IF ~call'.flag \/ Len(call'.seq) = 0
           THEN /\ emitted' = <<EvError("Peaks array must not be empty")>>
                /\ ~threw'
                /\ UNCHANGED <<peaks, options, pending, frameRequest, nextId,
                               isDestroyed>>
           ELSE /\ emitted' = <<>>
                /\ ~threw'
                /\ Len(peaks') = Len(call'.seq)
                /\ \A i \in 1..Len(peaks') : Abs(peaks'[i]) <= PeakUnit
                /\ RenderFrames(pending') # {}]_vars

C5_Witness ==
    /\ Live
    /\ call.op = "setPeaks"
    /\ call.flag
    /\ call.seq = <<>>
    /\ emitted = <<EvError("Peaks array must not be empty")>>
    /\ peaks # <<>>

\* C6: setProgress(v) on a live instance stores max(0, min(1, v)) and emits
\* progressChange with that value; -5, 0, 0.5, 1, 10 store 0, 0, 0.5, 1, 1.
C6_SetProgressClamps ==
    [][(~isDestroyed /\ call'.op = "setProgress")
        => /\ options'.progress = Clamp01(call'.num)
           /\ emitted' = <<EvNum("progressChange", Clamp01(call'.num))>>
           /\ (call'.num = -5 * Scale => options'.progress = 0)
           /\ (call'.num = 0 => options'.progress = 0)
           /\ (call'.num = Scale \div 2 => options'.progress = Scale \div 2)
           /\ (call'.num = Scale => options'.progress = Scale)
           /\ (call'.num = 10 * Scale => options'.progress = Scale)]_vars

C6_Witness ==
    /\ Live
    /\ call.op = "setProgress"
    /\ call.num = 10 * Scale
    /\ options.progress = Scale
    /\ emitted = <<EvNum("progressChange", Scale)>>

\* C7: setProgress(v) on a live instance whose stored progress p satisfies
\* |clamp(v) - p| < 0.001 keeps p, emits no progressChange and requests no
\* render.
C7_EpsilonCoalescing ==
    [][(~isDestroyed /\ call'.op = "setProgress"
          /\ Abs(Clamp01(call'.num) - options.progress) < Epsilon)
        => /\ options'.progress = options.progress
           /\ emitted' = <<>>
           /\ UNCHANGED <<pending, frameRequest, nextId>>]_vars

\* C8: the stored progress of a live instance lies in [0, 1].
C8_ProgressInUnitInterval ==
    Live => (0 <= options.progress /\ options.progress <= Scale)

C10_RenderUsesLatestState ==
    /\ [][(call'.op = "frameTick" /\ drawn' # NotDrawn)
            => drawn' = [options |-> options, peaks |-> peaks,
                         canvasWidth |-> canvasWidth]]_vars
    /\ [][(~isDestroyed /\ call'.op = "frameTick" /\ requests >= 1)
            => drawn' # NotDrawn]_vars
    /\ [][(~isDestroyed /\ call.op = "setProgress" /\ call'.op = "frameTick")
            => drawn'.options.progress = Clamp01(call.num)]_vars
    /\ [][(~isDestroyed /\ call.op = "setPeaks" /\ call.flag /\ call.seq # <<>>
              /\ call'.op = "frameTick")
            => Len(drawn'.peaks) = Len(call.seq)]_vars

C10_Witness ==
    /\ Live
    /\ call.op = "frameTick"
    /\ call.num >= 3
    /\ drawn # NotDrawn
    /\ drawn.options.progress = Scale
    /\ drawn.options.color # DEFAULT_OPTIONS.color

\* C11: a frame tick on a live instance that starts less than 16 ms after
\* the last completed render pass and finds a render frame queued draws
\* nothing, emits no renderStart and leaves a render frame queued for a
\* later tick.
C11_ThrottleByRequeue ==
    [][(~isDestroyed /\ call'.op = "frameTick" /\ call'.flag
          /\ RenderFrames(pending) # {})
        => /\ drawn' = NotDrawn
           /\ ~Emits("renderStart")'
           /\ RenderFrames(pending') # {}]_vars

SuccessfulMutation ==
    /\ Live
    /\ call.op \in Mutators
    /\ call.op = "setPeaks" => (call.flag /\ call.seq # <<>>)

\* C12: after every successful mutator call on a live instance (setOptions,
\* setPeaks with a non-empty array, setProgress, setProgressLineOptions) a
\* render frame is pending, and if frame callbacks keep being delivered a
\* render pass runs later unless the instance is destroyed first.
C12_MutationLeadsToRender ==
    /\ [](SuccessfulMutation => RenderFrames(pending) # {})
    /\ (SuccessfulMutation
          ~> (isDestroyed \/ (call.op = "frameTick" /\ drawn # NotDrawn)))

C12_Witness ==
    /\ Live
    /\ hasRendered
    /\ call.op = "setProgressLineOptions"
    /\ RenderFrames(pending) # {}

\* C17: on an instance whose construction succeeded, the first frame tick
\* emits "ready" exactly once and invokes a listener subscribed before that
\* tick exactly once; no other call and no later tick emits "ready", so it
\* is emitted at most once in all.
C17_ReadyOnceOnFirstTick ==
    /\ [](constructed = "ok" => readyEmits = IF ticked THEN 1 ELSE 0)
    /\ [][(call'.op = "frameTick" /\ ~ticked)
            => /\ CountEmits("ready")' = 1
               /\ delivered' = IF subscribed THEN 1 ELSE 0]_vars
    /\ [][(call'.op # "frameTick" \/ ticked)
            => (~Emits("ready")' /\ delivered' = 0)]_vars

C17_Witness ==
    /\ call.op = "frameTick"
    /\ subscribed
    /\ delivered = 1
    /\ readyEmits = 1
    /\ Emits("ready")

LineFields == DOMAIN DEFAULT_OPTIONS.progressLine

\* C18: setOptions(partial) on a live instance sets each option named in
\* partial, keeps every other option, and merges a partial progressLine
\* object over the current progress-line style: the fields it names take
\* the new values and the fields it does not name keep their values.
C18_SetOptionsMergesProgressLine ==
    [][(~isDestroyed /\ call'.op = "setOptions")
        => LET partial == call'.part
           IN  /\ DOMAIN options' = DOMAIN options
               /\ \A k \in DOMAIN options \ DOMAIN partial : options'[k] = options[k]
               /\ \A k \in DOMAIN partial \ {"progressLine"} : options'[k] = partial[k]
               /\ ("progressLine" \in DOMAIN partial /\ partial.progressLine = Null)
                     => options'.progressLine = Null
               /\ ("progressLine" \in DOMAIN partial /\ partial.progressLine # Null)
                     => /\ options'.progressLine # Null
                        /\ \A f \in DOMAIN partial.progressLine :
                               /\ f \in DOMAIN options'.progressLine
                               /\ options'.progressLine[f] = partial.progressLine[f]
                        /\ options.progressLine # Null
                             => \A f \in DOMAIN options.progressLine
                                          \ DOMAIN partial.progressLine :
                                    /\ f \in DOMAIN options'.progressLine
                                    /\ options'.progressLine[f] = options.progressLine[f]]_vars

\* C19: setProgressLineOptions(null) on a live instance sets progressLine to
\* null; setProgressLineOptions(partial) sets each progress-line field to the
\* value in partial if it names the field, else to the current value if a
\* line is configured with that field, else to the default; either way no
\* other option changes and a render frame is requested.
C19_ProgressLinePrecedence ==
    [][(~isDestroyed /\ call'.op = "setProgressLineOptions")
        => LET partial == call'.part
               current == options.progressLine
           IN  /\ IF call'.flag
                  THEN options'.progressLine = Null
                  ELSE /\ DOMAIN options'.progressLine = LineFields
                       /\ \A f \in LineFields :
                              options'.progressLine[f] =
                                  IF f \in DOMAIN partial THEN partial[f]
                                  ELSE IF current # Null /\ f \in DOMAIN current
                                       THEN current[f]
                                  ELSE DEFAULT_OPTIONS.progressLine[f]
               /\ DOMAIN options' = DOMAIN options
               /\ \A k \in DOMAIN options \ {"progressLine"} : options'[k] = options[k]
               /\ requests' = requests + 1
               /\ RenderFrames(pending') = {[id |-> frameRequest', cb |-> "render"]}
               /\ frameRequest' = nextId]_vars

C19_Witness ==
    /\ Live
    /\ call.op = "setProgressLineOptions"
    /\ call.part = [width |-> 3]
    /\ options.progressLine = [color |-> "#FF0000", style |-> "dashed", width |-> 3]

CountOut(name) == Cardinality({i \in DOMAIN ehOut : ehOut[i].name = name})

\* C13: at most one debounce timer is pending; onResize is called only by
\* the debounce timer, exactly 150 ms after the last resize notification,
\* once, with the size measured by that timer run (unless the measurement
\* throws); once more than 150 ms have passed since the last notification
\* to a manager that is not destroyed, the timer has run exactly once.
C13_ResizeDebounce ==
    /\ [](Cardinality(timers) <= 1)
    /\ [](resizeCalls <= 1)
    /\ [](CountOut("onResize") > 0 => ehCall.op = "resizeTimer")
    /\ [](ehCall.op = "resizeTimer"
            => /\ now = lastNotify + resizeDebounceDelay
               /\ resizeCalls = 1
               /\ ehCall.fault.kind # "measure"
                     => (CountOut("onResize") = 1 /\ ehOut[1] = onResize(ehCall.width)))
    /\ []((lastNotify >= 0 /\ ehObserving /\ now > lastNotify + resizeDebounceDelay)
            => (resizeCalls = 1 /\ timers = {}))

C13_Witness ==
    /\ ehCall.op = "resizeTimer"
    /\ resizeTimeout = 3
    /\ now = 2 * TimeStep + resizeDebounceDelay
    /\ ehOut = <<onResize(800)>>

SeekHandled ==
    /\ ehCall.op \in {"click", "touch"}
    /\ ehCall.op = "touch" => ehCall.flag
    /\ ehCall.fault.kind = "none"

\* C14: a click or touch at clientX on a canvas with left L and width W,
\* with nothing thrown by the measurement or the callback, makes exactly one
\* onSeek call and throws nothing; the value is a defined number in [0, 1],
\* for W = 0 too, and equals clamp((clientX - L) / W, 0, 1) when W # 0:
\* 500 gives 0.5, 100 gives 0 and 1000 gives 1 for L = 100, W = 800.
C14_SeekIsClampedRatio ==
    SeekHandled
      => /\ ~ehThrew
         /\ Len(ehOut) = 1
         /\ ehOut[1].name = "onSeek"
         /\ ehOut[1].num # NaN
         /\ 0 <= ehOut[1].num /\ ehOut[1].num <= Scale
         /\ ehCall.width # 0
               => ehOut[1].num =
                      Clamp01(((ehCall.clientX - ehCall.left) * Scale) \div ehCall.width)
         /\ (ehCall.width = 800 /\ ehCall.left = 100)
               => /\ ehCall.clientX = 500 => ehOut[1].num = Scale \div 2
                  /\ ehCall.clientX = 100 => ehOut[1].num = 0
                  /\ ehCall.clientX = 1000 => ehOut[1].num = Scale

\* C15: when getBoundingClientRect or the onSeek/onResize callback throws
\* in the click, touchstart or debounced resize handling, the handler makes
\* exactly one onError call, as its last callback, lets no exception reach
\* the host, and leaves the listeners and the observer in place.
C15_InputErrorBoundary ==
    /\ [](ehCall.fault.kind # "none"
            => /\ ~ehThrew
               /\ CountOut("onError") = 1
               /\ ehOut[Len(ehOut)].name = "onError"
               /\ ehOut[Len(ehOut)].msg = "Canvas error" \/ ~ehCall.fault.value.isError)
    /\ [](ehCall.fault.kind = "none" => CountOut("onError") = 0)
    /\ []~ehThrew
    /\ [][ehCall'.op \in {"click", "touch", "resizeTimer"}
            => UNCHANGED <<ehListeners, ehObserving>>]_vars

C15_Witness ==
    /\ ehCall.op = "click"
    /\ ehCall.fault.kind = "callback"
    /\ Len(ehOut) = 2
    /\ ehOut[1].name = "onSeek"
    /\ ehOut[2].name = "onError"
    /\ "click" \in ehListeners

Normalized(e) == IF e.isError THEN e ELSE NewError("An unknown error occurred")

\* C16: every "error" notification of the renderer and every onError call of
\* the event handler manager carries an Error object: the caught value
\* itself when it is an Error, otherwise a new Error with the message
\* "An unknown error occurred".
C16_ErrorsAreNormalized ==
    /\ \A i \in DOMAIN emitted :
          emitted[i].name = "error"
            => /\ emitted[i].value.isError
               /\ emitted[i].msg = emitted[i].value.msg
               /\ call.op = "handleError" => emitted[i].value = Normalized(call.part)
    /\ \A i \in DOMAIN ehOut :
          ehOut[i].name = "onError"
            => /\ ehOut[i].value.isError
               /\ ehOut[i].msg = ehOut[i].value.msg
               /\ ehCall.op = "handleError"
                     => ehOut[i].value = Normalized(ehCall.fault.value)

C16_Witness ==
    /\ call.op = "handleError"
    /\ ~call.part.isError
    /\ emitted = <<handleError(call.part)>>
    /\ emitted[1].value = NewError("An unknown error occurred")
    /\ ehCall.op = "handleError"
    /\ ehCall.fault.value.isError
    /\ ehOut[1].value = ehCall.fault.value

StepOrder == <<"onRenderStart", "beforeRender", "clearRect", "track",
               "afterBackground", "progress", "afterProgress", "progressLine",
               "afterComplete", "onRenderComplete">>
Rank(s) == CHOOSE i \in DOMAIN StepOrder : StepOrder[i] = s
Ran(s) == \E i \in DOMAIN engTrace : engTrace[i].step = s

\* C20: a render call with no custom renderer in which nothing throws runs
\* its steps in the order onRenderStart, beforeRender, clear, track layer,
\* afterBackground, progress layer, afterProgress, progress line,
\* afterComplete, onRenderComplete, each at most once: the four unconditional
\* steps always, a hook when it is installed, the progress layer and
\* afterProgress (called with the progress value) only when progress > 0,
\* the progress line only when one is configured and progress > 0.
C20_RenderStepOrder ==
    (engCall # NoRenderCall /\ engCall.customRenderer = "none"
       /\ engCall.in.failAt = "none")
      => /\ ~engThrew
         /\ \A i \in DOMAIN engTrace : \E r \in DOMAIN StepOrder :
                StepOrder[r] = engTrace[i].step
         /\ \A i, j \in DOMAIN engTrace :
                i < j => Rank(engTrace[i].step) < Rank(engTrace[j].step)
         /\ Ran("onRenderStart") /\ Ran("clearRect") /\ Ran("track")
         /\ Ran("onRenderComplete")
         /\ \A h \in HookNames \ {"afterProgress"} : Ran(h) <=> h \in engCall.hooks
         /\ Ran("progress") <=> engCall.in.progress > 0
         /\ Ran("afterProgress")
               <=> ("afterProgress" \in engCall.hooks /\ engCall.in.progress > 0)
         /\ Ran("progressLine") <=> (engCall.in.line /\ engCall.in.progress > 0)
         /\ \A i \in DOMAIN engTrace :
                engTrace[i].step = "afterProgress" => engTrace[i].num = engCall.in.progress

C20_Witness ==
    /\ engCall # NoRenderCall
    /\ engCall.customRenderer = "none"
    /\ engCall.in.failAt = "none"
    /\ engCall.hooks = HookNames
    /\ Len(engTrace) = Len(StepOrder)
    /\ engTrace[1].step = "onRenderStart"
    /\ engTrace[Len(engTrace)].step = "onRenderComplete"

RenderCalled == engCall # NoRenderCall
LastStep == engTrace[Len(engTrace)].step

\* C21 as stated: when the custom renderer returns true the engine does not
\* clear, draw the track or call afterBackground, but still runs the progress
\* layer and afterProgress (when progress > 0), the progress line and
\* afterComplete before it reports completion.
C21_HandledContinuesAtStep6 ==
    (RenderCalled /\ engCall.customRenderer = "handles"
       /\ engCall.in.failAt = "none")
      => /\ ~Ran("clearRect") /\ ~Ran("track") /\ ~Ran("afterBackground")
         /\ Ran("progress") <=> engCall.in.progress > 0
         /\ Ran("afterProgress")
               <=> ("afterProgress" \in engCall.hooks /\ engCall.in.progress > 0)
         /\ Ran("progressLine") <=> (engCall.in.line /\ engCall.in.progress > 0)
         /\ Ran("afterComplete") <=> "afterComplete" \in engCall.hooks
         /\ LastStep = "onRenderComplete"

\* C21 (amended): when the custom renderer returns true the pass consists of
\* onRenderStart, the beforeRender hook if installed, the custom renderer and
\* onRenderComplete, and nothing else: no clearing, no layer, no progress
\* line and none of afterBackground, afterProgress, afterComplete.
C21_HandledSkipsEverything ==
    (RenderCalled /\ engCall.customRenderer = "handles"
       /\ engCall.in.failAt = "none")
      => /\ ~engThrew
         /\ engTrace = <<Step("onRenderStart")>>
                        \o (IF "beforeRender" \in engCall.hooks
                            THEN <<Step("beforeRender")>> ELSE <<>>)
                        \o <<Step("customRender"), Step("onRenderComplete")>>

C21_Witness ==
    /\ RenderCalled
    /\ engCall.customRenderer = "handles"
    /\ engCall.in.failAt = "none"
    /\ engCall.hooks = HookNames
    /\ engCall.in.progress > 0
    /\ engCall.in.line
    /\ Len(engTrace) = 4
    /\ LastStep = "onRenderComplete"

\* C24: each layer is drawn per bar exactly when borderRadius > 0 and (no
\* compiled path was passed or Path2D has no roundRect); in every other case
\* the compiled path that was passed is filled; with a border radius and no
\* roundRect the compiled path is never used.
C24_FallbackDecision ==
    RenderCalled =>
        \A i \in DOMAIN engTrace :
            engTrace[i].step \in {"track", "progress"} =>
                LET in == engCall.in
                    perBar == in.borderRadius > 0 /\ (~in.hasPath \/ ~in.roundRect)
                IN  /\ engTrace[i].mode = "bars" <=> perBar
                    /\ ~perBar => engTrace[i].mode = "path"
                    /\ (in.borderRadius > 0 /\ ~in.roundRect)
                          => engTrace[i].mode # "path"

\* C30: when a step of a render pass throws, the caller receives the very
\* value that was thrown, the throwing step is the last one of the pass and
\* onRenderComplete is not called; a pass in which no step throws returns.
C30_RenderRethrows ==
    RenderCalled =>
        IF Ran(engCall.in.failAt)
        THEN /\ engThrew
             /\ engError = engCall.in.value
             /\ LastStep = engCall.in.failAt
             /\ \A i \in 1..(Len(engTrace) - 1) :
                    engTrace[i].step # engCall.in.failAt
             /\ ~Ran("onRenderComplete")
        ELSE /\ ~engThrew
             /\ engError = Undefined
             /\ LastStep = "onRenderComplete"

C30_Witness ==
    /\ RenderCalled
    /\ engCall.in.failAt = "afterProgress"
    /\ ~engCall.in.value.isError
    /\ engThrew
    /\ engError = engCall.in.value
    /\ LastStep = "afterProgress"
    /\ Ran("progress")
    /\ ~Ran("progressLine")

\* C28: once EventHandlerManager.destroy() has run, the click and touchstart
\* listeners are gone, the observer is disconnected, no timer is pending, and
\* no step invokes onSeek or onResize or throws, a second destroy() included.
C28_DestroySilences ==
    ~ehObserving
      => /\ ehListeners = {}
         /\ timers = {}
         /\ CountOut("onSeek") = 0
         /\ CountOut("onResize") = 0
         /\ ~ehThrew

\* destroy() called again after the delay of a timer that was pending at the
\* first destroy() has passed: that timer never ran
C28_Witness ==
    /\ ehCall.op = "destroy"
    /\ ~ehObserving
    /\ resizeTimeout # 0
    /\ resizeCalls = 0
    /\ now > lastNotify + resizeDebounceDelay
    /\ timers = {}
    /\ ~ehThrew

\* C29: after WaveformRenderer.destroy() every registration made by the
\* constructor is undone: no click or touchstart listener is left on the
\* canvas and the resize observer is disconnected.
C29_DestroyUnregistersAll ==
    (constructed = "ok" /\ isDestroyed)
      => /\ listeners = {}
         /\ ~observing

LogicalWidth(in) == in.canvas.width \div in.canvas.dpr
LogicalHeight(in) == in.canvas.height \div in.canvas.dpr
SameLayout(a, b) == \A f \in LayoutFields : a.options[f] = b.options[f]

\* a getCache call made while the entry of the getCache call before it is
\* still there: only createStaticPath calls lie between the two
GetCacheAgain ==
    /\ cacheCall'.op = "getCache"
    /\ cacheCall.op \in {"getCache", "createStaticPath"}

\* C22: of two consecutive getCache calls with the same logical width and
\* height, the same values of the layout options and the same peaks, the
\* second returns the very entry of the first, compiled path included; a
\* second call with another logical width returns another entry, whose
\* canvasWidth is the new logical width.
C22_CacheReuse ==
    [][GetCacheAgain =>
          /\ (/\ LogicalWidth(cacheArgs') = LogicalWidth(cacheArgs)
              /\ LogicalHeight(cacheArgs') = LogicalHeight(cacheArgs)
              /\ SameLayout(cacheArgs', cacheArgs)
              /\ cacheArgs'.peaks = cacheArgs.peaks)
                => /\ cache' = cache
                   /\ cacheCall'.ret = cache.id
          /\ LogicalWidth(cacheArgs') # LogicalWidth(cacheArgs)
                => /\ cache'.id # cache.id
                   /\ cacheCall'.ret = cache'.id
                   /\ cache'.canvasWidth = LogicalWidth(cacheArgs')]_vars

\* the same arguments again, from a canvas with other device pixels, after
\* the path was compiled
C22_Witness ==
    /\ cacheCall.op = "getCache"
    /\ cacheCall.prevArgs # Null
    /\ cacheCall.prevArgs.canvas # cacheArgs.canvas
    /\ LogicalWidth(cacheCall.prevArgs) = LogicalWidth(cacheArgs)
    /\ LogicalHeight(cacheCall.prevArgs) = LogicalHeight(cacheArgs)
    /\ cacheCall.prevArgs.peaks = cacheArgs.peaks
    /\ cacheCall.prevArgs.options = cacheArgs.options
    /\ cacheCall.prevPath # Undefined
    /\ cache.staticWaveformPath = cacheCall.prevPath
    /\ cacheCall.ret = 1
    /\ nextEntry = 2

\* C23: the entry getCache returns has singleUnitWidth = w + 2b + g,
\* totalBars = max(1, floor((W - 2b) / (w + 2b + g))) and as many bars as
\* totalBars, whatever the number of peaks.
C23_BarCount ==
    cacheCall.op = "getCache" =>
        LET o == cacheArgs.options
            unit == o.barWidth + 2 * o.borderWidth + o.gap
        IN  /\ cache.singleUnitWidth = unit
            /\ cache.totalBars
                 = Max(1, (cache.canvasWidth - 2 * o.borderWidth) \div unit)
            /\ Len(cache.bars) = cache.totalBars

\* C25: the entry getCache returns has the bars of a fresh build from the
\* canvas size, options and peaks of that call.
C25_ReturnsFreshBars ==
    cacheCall.op = "getCache" =>
        cache.bars = buildCache(0, LogicalWidth(cacheArgs), LogicalHeight(cacheArgs),
                                cacheArgs.peaks, cacheArgs.options,
                                createOptionsHash(cacheArgs.options),
                                createPeaksHash(cacheArgs.peaks)).bars

\* C26: a getCache call that differs from the one before it only in options
\* that are not layout options (canvas, peaks and the six layout options
\* being the same) returns the very entry of the call before.
C26_NonLayoutKeepsEntry ==
    [][(/\ GetCacheAgain
        /\ cacheArgs'.canvas = cacheArgs.canvas
        /\ cacheArgs'.peaks = cacheArgs.peaks
        /\ SameLayout(cacheArgs', cacheArgs)
        /\ \E f \in NonLayoutFields : cacheArgs'.options[f] # cacheArgs.options[f])
          => /\ cache' = cache
             /\ cacheCall'.ret = cache.id
             /\ nextEntry' = nextEntry]_vars

C26_Witness ==
    /\ cacheCall.op = "getCache"
    /\ cacheCall.prevArgs # Null
    /\ cacheCall.prevArgs.canvas = cacheArgs.canvas
    /\ cacheCall.prevArgs.peaks = cacheArgs.peaks
    /\ SameLayout(cacheCall.prevArgs, cacheArgs)
    /\ cacheCall.prevArgs.options.progressLine # cacheArgs.options.progressLine
    /\ cacheCall.prevPath # Undefined
    /\ cache.staticWaveformPath = cacheCall.prevPath
    /\ cacheCall.ret = 1
    /\ nextEntry = 2

\* C27: invalidate() leaves no entry as it is and an entry the same object
\* with the same bars, dimensions and fingerprints, only without compiled
\* path, so isValid() is unchanged; the next getCache with the same
\* arguments returns that entry, and createStaticPath then compiles its
\* path again.
C27_InvalidateClearsPathOnly ==
    [][/\ cacheCall'.op = "invalidate"
          => /\ cache = Null => cache' = Null
             /\ cache # Null
                  => /\ cache' = [cache EXCEPT !.staticWaveformPath = Undefined]
                     /\ cache' # Null
       /\ (cacheCall.op = "invalidate" /\ cache # Null
             /\ cacheCall'.op = "getCache" /\ cacheArgs' = cacheArgs)
          => /\ cache' = cache
             /\ cacheCall'.ret = cache.id
       /\ (cacheCall'.op = "createStaticPath" /\ PathOf(cache) = Undefined)
          => /\ cache' = [cache EXCEPT !.staticWaveformPath = cacheCall'.ret]
             /\ cacheCall'.ret # Undefined
             /\ cacheCall'.ret.bars = cache.bars]_vars

\* invalidate() called on an entry that had a compiled path
C27_Witness ==
    /\ cacheCall.op = "invalidate"
    /\ cacheCall.prevPath # Undefined
    /\ isValid
    /\ cache.staticWaveformPath = Undefined
    /\ cache.id = 1
    /\ Len(cache.bars) = cache.totalBars

\* C32: a layer is drawn from a compiled path only when one was passed to
\* render; when none was passed, whatever the border radius, the track layer
\* and the progress layer are drawn bar by bar.
C32_NoPathMeansBars ==
    RenderCalled =>
        \A i \in DOMAIN engTrace :
            engTrace[i].step \in {"track", "progress"} =>
                /\ engTrace[i].mode = "path" => engCall.in.hasPath
                /\ ~engCall.in.hasPath => engTrace[i].mode = "bars"

\* C33: a progress layer that was drawn to its end, by path or bar by bar,
\* set the clip rectangle (0, 0, canvasWidth x progress, canvasHeight) and
\* restored every drawing state it saved.
C33_ProgressClip ==
    RenderCalled =>
        \A i \in DOMAIN engTrace :
            (engTrace[i].step = "progress" /\ ~(engThrew /\ i = Len(engTrace))) =>
                /\ engTrace[i].clip =
                       <<0, 0,
                         (EngineCache.canvasWidth * engCall.in.progress) \div Scale,
                         EngineCache.canvasHeight>>
                /\ engTrace[i].open = 0

\* C37: once destroy has run, no later frame callback, input event or public
\* call makes the instance emit anything, the "ready" requested by the
\* constructor included.
C37_SilentAfterDestroy ==
    (isDestroyed /\ call.op # "destroy") => emitted = <<>>

\* C40 as stated: handling a click or touch only notifies, and the stored
\* progress changes only in a call of setProgress.
C40_ProgressOnlyBySetProgress ==
    [][options'.progress # options.progress => call'.op = "setProgress"]_vars

\* C40: handling a click or touch on a live instance emits "seek" with the
\* computed progress and nothing else; options (the stored progress with
\* them) and peaks stay as they were and no frame is requested or cancelled.
\* The stored progress changes only in a call of setProgress or setOptions.
C40_SeekOnlyNotifies ==
    [][/\ call'.op \in {"handleClick", "handleTouch"} =>
            /\ UNCHANGED <<options, peaks, isDestroyed, frameRequest, pending,
                           nextId, requests>>
            /\ \A i \in DOMAIN emitted' : emitted'[i].name = "seek"
            /\ Len(emitted') = IF isDestroyed \/ (call'.op = "handleTouch" /\ ~call'.flag)
                               THEN 0 ELSE 1
       /\ options'.progress # options.progress
            => call'.op \in {"setProgress", "setOptions"}]_vars

C40_Witness ==
    /\ call.op = "handleClick"
    /\ ~isDestroyed
    /\ emitted = <<EvNum("seek", Scale \div 2)>>
    /\ options.progress = 0
    /\ RenderFrames(pending) = {}

\* C36: normalizePeaks divides every element by max(1, largest absolute
\* value): every result has absolute value at most 1, a series whose largest
\* absolute value is at most 1 comes back unchanged, normalizing the result
\* again changes nothing, and [1000, 2000, 3000, 4000] gives
\* [0.25, 0.5, 0.75, 1].
C36_NormalizePeaks ==
    pkCall.op = "normalizePeaks" =>
        LET m == Max(PeakUnit, MaxAbs(given))
        IN  /\ Len(array) = Len(given)
            /\ \A i \in 1..Len(array) :
                   /\ array[i] * m = given[i] * PeakUnit
                   /\ Abs(array[i]) <= PeakUnit
            /\ MaxAbs(given) <= PeakUnit => array = given
            /\ normalizePeaks(array) = array
            /\ pkCall.again => array = given
            /\ given = LargeSeries =>
                   array = <<PeakUnit \div 4, PeakUnit \div 2,
                             (3 * PeakUnit) \div 4, PeakUnit>>

C36_Witness ==
    /\ pkCall.op = "normalizePeaks"
    /\ given = LargeSeries
    /\ array = <<1, 2, 3, 4>>

\* C34: the constructor and setPeaks leave the elements of the array they
\* are passed as the caller wrote them.
C34_CallerArrayUntouched ==
    pkCall.op \in {"constructor", "setPeaks"} => array = given

\* C35: an emit calls every listener that was subscribed when it started,
\* once each and in subscription order, whatever the listeners unsubscribe
\* while they run.
C35_EmitReachesEveryListener ==
    emCall.op = "emit" =>
        invoked = [i \in 1..Len(emCall.before) |-> emCall.before[i].id]

C39_PassBracketed ==
    LET tick == call.op \in {"frameTick", "frameTickThrows"}
        pass == SelectSeq(emitted, LAMBDA ev :
                    \/ ev.name \in {"renderStart", "renderComplete"}
                    \/ ev.name = "error" /\ tick)
    IN  /\ ~tick => pass = <<>>
        /\ constructed = "ok" =>
               \/ pass = <<>>
               \/ /\ Len(pass) = 2
                  /\ pass[1].name = "renderStart"
                  /\ pass[2].name \in {"renderComplete", "error"}
                  /\ pass[2].name = "error" <=> call.op = "frameTickThrows"

C39_Witness ==
    /\ call.op = "frameTickThrows"
    /\ \E e \in DrawThrown :
           emitted = <<Ev("renderStart"), handleError(e), Ev("ready")>>

\* C38: a "destroy" listener that calls destroy() or a mutator finds the
\* instance destroyed: "destroy" is emitted once, nothing else is emitted,
\* and no frame is requested.
C38_DestroyDispatchInert ==
    [][(call'.op = "destroy" /\ ~isDestroyed) =>
          /\ emitted' = <<Ev("destroy")>>
          /\ UNCHANGED <<options, peaks, nextId, requests>>]_vars

====
